---- MODULE Spec2Model ----
(***************************************************************************)
(* Model of the pour ("concretagem") scheduling application in src/app.py: *)
(* the persisted pour table, the audit history, and the create / edit /    *)
(* delete handlers run by concurrent Streamlit sessions.  Every database   *)
(* statement is one atomic step; a handler is a sequence of such steps,    *)
(* so that statements of different sessions interleave the way separate    *)
(* round-trips do.                                                         *)
(***************************************************************************)
EXTENDS Integers, Sequences, FiniteSets, TLC

\* ------------------------------------------------------------------ bounds
MaxOps      == 2     \* handlers started in one behaviour
MaxFaults   == 1     \* database statements that fail in one behaviour

\* The concurrent browser sessions: the two users whose requests race.
Sessions == {1, 2}

\* ------------------------------------------------------- program constants
MinutesPerDay == 1440

STATUS == <<"Agendado", "Aguardando", "Confirmado", "Execucao", "Concluido", "Cancelado">>

\* ----------------------------------------------------------- input domains
\* Text is a sequence of characters, so that strip() and lower() are real
\* conversions.  A date is a day ordinal, a time of day is <<hour, minute>>.
\* The forms are the submissions a user can make; they are chosen so that
\* same-day pours overlap or not, share a pump or crew label up to case and
\* blanks or not, and differ in every field the edit form writes.
Blank == <<>>
P1    == <<"P", "1">>
p1_   == <<"p", "1", " ">>
E1    == <<"E", "1">>
Obs   == <<"o", " ">>

BookedForm ==
    [obra_id |-> 1, tipo_servico |-> "Concretagem",
     data |-> 10, hora_inicio |-> <<8, 0>>, duracao_min |-> 120, bomba |-> P1,
     equipe |-> Blank, status |-> "Agendado", colab_qtd |-> 1, observacoes |-> Obs,
     volume |-> 2401, fck |-> 25, slump |-> <<"1", "0">>, cap |-> 800, cps_por_cam |-> 6]

\* The second is a pour of concrete with no strength and no volume entered;
\* the third is a soil test submitted with the duration the form shows,
\* the inputs of a pour of concrete being absent from its form.
CreateForms ==
    { BookedForm,
      [obra_id |-> 2, tipo_servico |-> "Concretagem",
       data |-> 10, hora_inicio |-> <<9, 30>>, duracao_min |-> 60,  bomba |-> p1_,
       equipe |-> E1, status |-> "Agendado", colab_qtd |-> 2, observacoes |-> Blank,
       volume |-> 0, fck |-> 0, slump |-> Blank, cap |-> 10, cps_por_cam |-> 1],
      [obra_id |-> 1, tipo_servico |-> "Ensaio de Solo",
       data |-> 11, hora_inicio |-> <<9, 30>>, duracao_min |-> 60,  bomba |-> Blank,
       equipe |-> Blank, status |-> "Confirmado", colab_qtd |-> 1, observacoes |-> Blank,
       volume |-> 0, fck |-> 0, slump |-> Blank, cap |-> 0, cps_por_cam |-> 0] }

\* The first edit turns the pour into a soil test and leaves the volume,
\* strength and slump inputs as a pour of concrete filled them; the second
\* is a pour of concrete with other quantities.  Both change the head count
\* input.
EditForms ==
    { [duracao_min |-> 60,  bomba |-> P1,    equipe |-> E1,    status |-> "Agendado",
       observacoes |-> Blank, tipo_servico |-> "Ensaio de Solo", colab_qtd |-> 5,
       volume |-> 2401, fck |-> 25, slump |-> <<"1", "0">>, cap |-> 800, cps_por_cam |-> 6],
      [duracao_min |-> 120, bomba |-> p1_,   equipe |-> Blank, status |-> "Cancelado",
       observacoes |-> Obs, tipo_servico |-> "Concretagem", colab_qtd |-> 3,
       volume |-> 1600, fck |-> 0, slump |-> <<"1", "2", ",", "5">>, cap |-> 700,
       cps_por_cam |-> 4] }

\* ---------------------------------------------------------------- helpers
NoRow  == [id |-> 0]          \* get_concretagem_by_id: `row or {}`
None   == [none |-> TRUE]     \* Python None in a history snapshot
NoTime == <<>>                \* "" : str(before.get("hora_inicio") or "")
NoDate == 0                   \* "" : str(before.get("data") or "")

RECURSIVE lstrip(_)
lstrip(s) == IF s # <<>> /\ Head(s) = " " THEN lstrip(Tail(s)) ELSE s

RECURSIVE rstrip(_)
rstrip(s) == IF s # <<>> /\ s[Len(s)] = " " THEN rstrip(SubSeq(s, 1, Len(s) - 1)) ELSE s

strip(s) == rstrip(lstrip(s))

\* str.lower(), one character at a time.
lower_char(c) ==
    CASE c = "A" -> "a" [] c = "B" -> "b" [] c = "C" -> "c" [] c = "D" -> "d" [] c = "E" -> "e"
      [] c = "F" -> "f" [] c = "G" -> "g" [] c = "H" -> "h" [] c = "I" -> "i" [] c = "J" -> "j"
      [] c = "K" -> "k" [] c = "L" -> "l" [] c = "M" -> "m" [] c = "N" -> "n" [] c = "O" -> "o"
      [] c = "P" -> "p" [] c = "Q" -> "q" [] c = "R" -> "r" [] c = "S" -> "s" [] c = "T" -> "t"
      [] c = "U" -> "u" [] c = "V" -> "v" [] c = "W" -> "w" [] c = "X" -> "x" [] c = "Y" -> "y"
      [] c = "Z" -> "z" [] c = "Ç" -> "ç" [] c = "Ã" -> "ã" [] c = "Í" -> "í"
      [] OTHER -> c

lower(s) == [i \in 1..Len(s) |-> lower_char(s[i])]

\* find_conflicts._parse_time: None for a blank text, else the time of day,
\* here as minutes since midnight.
NoParse == -1
_parse_time(t) == IF t = NoTime THEN NoParse ELSE t[1] * 60 + t[2]

\* datetime.combine(d, t) as minutes on an absolute axis.
combine(d, mins) == d * MinutesPerDay + mins

\* ------------------------------------------------------------------ state
VARIABLES
    concretagens,   \* the pour table: a set of rows with distinct ids
    historico,      \* the history table: rows in insertion order
    seq,            \* last primary key handed out for concretagens
    config,         \* the config table: key -> stored text, NoValue when no row
    pc,             \* per session: position in the running handler
    op,             \* per session: the handler that runs or ran last
    form,           \* per session: the submitted form values
    sel,            \* per session: the pour id the handler works on
    before,         \* per session: local `before`
    after,          \* per session: local `after`
    conflicts,      \* per session: local `conflicts`
    warned,         \* per session: the capacity warning was shown: "yes", "no"; "none"
                    \* when the flow did not compute it
    ret,            \* per session: value returned by delete_concretagem_by_id
    ops,            \* handlers started so far
    faults,         \* failed statements so far
    \* history variables (not program state)
    saved,          \* per session: the handler's insert/update statement ran
    reread,         \* per session: outcome of the re-read in delete
    delRaised,      \* per session: the try block of delete raised
    wrote,          \* per session: history ids written by the running call
    lastWriter,     \* per pour id: session whose update statement ran last
    muts,           \* per (change, pour id): how often the pour table was changed
    \* one evaluation of a function of the module, outside any handler
    call,           \* the function applied and its arguments
    result          \* the value it returned

vars == <<concretagens, historico, seq, config, pc, op, form, sel, before, after, conflicts,
          warned,
          ret, ops, faults, saved, reread, delRaised, wrote, lastWriter, muts, call, result>>

capvars == <<warned>>

fnvars == <<call, result>>

\* --------------------------------------------------------- pure functions
Today == 10    \* date.today(), the fallback of ensure_date

ensure_date(x) == IF x = NoDate THEN Today ELSE x

NoId == 0      \* ignore_id=None

Ids(tbl) == {r.id : r \in tbl}

\* get_concretagem_by_id: the row with that id, or {} when there is none.
get_concretagem_by_id(tbl, cid) ==
    IF cid \in Ids(tbl) THEN CHOOSE r \in tbl : r.id = cid ELSE NoRow

\* Variant: the SELECT without its `AND c.id <> :ignore_id` clause.
find_conflicts_rows_all(tbl, d, ignore_id) == {r \in tbl : r.data = d}

\* The SELECT of find_conflicts: same-day rows, minus the ignored id.
find_conflicts_rows(tbl, d, ignore_id) ==
    {r \in tbl : r.data = d /\ (ignore_id = NoId \/ r.id # ignore_id)}

\* Variant: the stored labels are lower-cased but not trimmed.
find_conflicts_reasons_untrimmed(r, nb, ne) ==
    LET rb  == lower(r.bomba)
        re_ == lower(r.equipe)
        byBomba  == IF nb # <<>> /\ rb = nb THEN <<"bomba">> ELSE <<>>
        byEquipe == IF ne # <<>> /\ re_ = ne THEN <<"equipe">> ELSE <<>>
    IN  IF nb = <<>> /\ ne = <<>> THEN <<"agenda">> ELSE byBomba \o byEquipe

\* The reasons find_conflicts computes for a stored row: nb and ne are the
\* candidate's pump and crew labels, trimmed and lower-cased.
find_conflicts_reasons(r, nb, ne) ==
    LET rb  == lower(strip(r.bomba))
        re_ == lower(strip(r.equipe))
        byBomba  == IF nb # <<>> /\ rb = nb THEN <<"bomba">> ELSE <<>>
        byEquipe == IF ne # <<>> /\ re_ = ne THEN <<"equipe">> ELSE <<>>
    IN  IF nb = <<>> /\ ne = <<>> THEN <<"agenda">> ELSE byBomba \o byEquipe

\* Variant: intervals that only touch count as overlapping.
find_conflicts_touching(tbl, date_iso, hora_inicio, duracao_min, bomba, equipe, ignore_id) ==
    LET d         == ensure_date(date_iso)
        t0        == _parse_time(hora_inicio)
        new_start == combine(d, t0)
        new_end   == new_start + duracao_min
        nb        == lower(strip(bomba))
        ne        == lower(strip(equipe))
        hit(r)    == LET old_start == combine(ensure_date(r.data), _parse_time(r.hora_inicio))
                         old_end   == old_start + r.duracao_min
                     IN  /\ find_conflicts_reasons(r, nb, ne) # <<>>
                         /\ _parse_time(r.hora_inicio) # NoParse
                         /\ new_start <= old_end
                         /\ old_start <= new_end
    IN  IF t0 = NoParse THEN {}
        ELSE {[id |-> r.id, reasons |-> find_conflicts_reasons(r, nb, ne)] :
                 r \in {x \in find_conflicts_rows(tbl, d, ignore_id) : hit(x)}}

\* find_conflicts: the persisted pours that share a resource with the
\* candidate and whose interval overlaps the candidate's.
find_conflicts(tbl, date_iso, hora_inicio, duracao_min, bomba, equipe, ignore_id) ==
    LET d         == ensure_date(date_iso)
        t0        == _parse_time(hora_inicio)
        new_start == combine(d, t0)
        new_end   == new_start + duracao_min
        nb        == lower(strip(bomba))
        ne        == lower(strip(equipe))
        hit(r)    == LET old_start == combine(ensure_date(r.data), _parse_time(r.hora_inicio))
                         old_end   == old_start + r.duracao_min
                     IN  /\ find_conflicts_reasons(r, nb, ne) # <<>>
                         /\ _parse_time(r.hora_inicio) # NoParse
                         /\ new_start < old_end
                         /\ old_start < new_end
    IN  IF t0 = NoParse THEN {}
        ELSE {[id |-> r.id, reasons |-> find_conflicts_reasons(r, nb, ne)] :
                 r \in {x \in find_conflicts_rows(tbl, d, ignore_id) : hit(x)}}

\* Variant: one history row kept per pour, the newest replacing the older.
add_history_upsert(h, concretagem_id, action, bef, aft, user) ==
    Append(SelectSeq(h, LAMBDA e : e.entidade_id # concretagem_id),
           [acao |-> action, entidade_id |-> concretagem_id,
            before |-> bef, after |-> aft, usuario |-> user])

\* add_history: one row appended to historico.
add_history(h, concretagem_id, action, bef, aft, user) ==
    Append(h, [acao |-> action, entidade_id |-> concretagem_id,
               before |-> bef, after |-> aft, usuario |-> user])

current_user(p) == p

NoForm == [none |-> TRUE]

\* The two keys config_set_int writes for the team capacity.
ConfigKeys == {"team_capacity", "capacidade_colaboradores"}
NoValue == <<"NULL">>

\* Values of the "Colaboradores disponíveis por dia" input (min_value=1).
CapInputs == {2}

\* str(iv) for the one-digit values of CapInputs.
str_int(n) == <<CASE n = 1 -> "1" [] n = 2 -> "2" [] n = 3 -> "3" [] OTHER -> "?">>

\* set_config_value: INSERT ... ON CONFLICT DO UPDATE / INSERT OR REPLACE.
set_config_value(cfg, key, value) == [cfg EXCEPT ![key] = value]

\* ------------------------------------------- functions of the scheduling core
\* SQL NULL in colab_qtd.
NullQty == -1

\* The characters of a status text, for the functions that fold or compare
\* it character by character.
StatusText ==
    "Agendado" :> <<"A", "g", "e", "n", "d", "a", "d", "o">> @@
    "Aguardando" :> <<"A", "g", "u", "a", "r", "d", "a", "n", "d", "o">> @@
    "Confirmado" :> <<"C", "o", "n", "f", "i", "r", "m", "a", "d", "o">> @@
    "Execucao" :> <<"E", "x", "e", "c", "u", "c", "a", "o">> @@
    "Concluido" :> <<"C", "o", "n", "c", "l", "u", "i", "d", "o">> @@
    "Cancelado" :> <<"C", "a", "n", "c", "e", "l", "a", "d", "o">> @@
    "AGENDADO" :> <<"A", "G", "E", "N", "D", "A", "D", "O">> @@
    "Execução" :> <<"E", "x", "e", "c", "u", "ç", "ã", "o">> @@
    "CANCELADO" :> <<"C", "A", "N", "C", "E", "L", "A", "D", "O">> @@
    "Concluído" :> <<"C", "o", "n", "c", "l", "u", "í", "d", "o">> @@
    "Cáncelado" :> <<"C", "á", "n", "c", "e", "l", "a", "d", "o">> @@
    "EXECUÇÃO" :> <<"E", "X", "E", "C", "U", "Ç", "Ã", "O">>

startswith(s, prefix) ==
    Len(s) >= Len(prefix) /\ SubSeq(s, 1, Len(prefix)) = prefix

\* to_dt(d, h) of a row of the dashboard frame; h = str(hora_inicio or "00:00").
to_dt(d, h) == combine(d, IF h = NoTime THEN 0 ELSE h[1] * 60 + h[2])

\* detect_schedule_conflicts, first loop: cancelled rows and rows whose date
\* does not parse are left out; the labels are trimmed.
detect_rows(df) ==
    { [id |-> r.id, inicio |-> to_dt(r.data, r.hora_inicio),
       fim |-> to_dt(r.data, r.hora_inicio) + (IF r.duracao_min > 0 THEN r.duracao_min ELSE 0),
       equipe |-> strip(r.equipe), bomba |-> strip(r.bomba)] :
      r \in {x \in df : /\ ~startswith(lower(StatusText[x.status]), <<"c", "a", "n", "c", "e", "l">>)
                        /\ x.data # NoDate} }

\* items.sort(key=inicio) is stable and the frame arrives ordered by date,
\* start and id.
SortsBefore(a, b) == a.inicio < b.inicio \/ (a.inicio = b.inicio /\ a.id < b.id)

\* Variant: rows with a blank label are grouped like any other label.
scan_blank_group(rows, resource_key, label) ==
    { [tipo |-> label, recurso |-> a[resource_key], a |-> a.id, b |-> b.id] :
      <<a, b>> \in {<<x, y>> \in rows \X rows :
                      /\ x[resource_key] = y[resource_key]
                      /\ SortsBefore(x, y)
                      /\ ~\E z \in rows : /\ z[resource_key] = x[resource_key]
                                          /\ SortsBefore(x, z) /\ SortsBefore(z, y)
                      /\ x.fim > y.inicio} }

\* Variant: every two overlapping rows of a group are reported, neighbours
\* or not.
scan_all_pairs(rows, resource_key, label) ==
    { [tipo |-> label, recurso |-> a[resource_key], a |-> a.id, b |-> b.id] :
      <<a, b>> \in {<<x, y>> \in rows \X rows :
                      /\ x[resource_key] # <<>>
                      /\ x[resource_key] = y[resource_key]
                      /\ SortsBefore(x, y)
                      /\ x.fim > y.inicio} }

\* detect_schedule_conflicts.scan: rows grouped by label, blank labels
\* skipped, each group sorted by start, neighbours compared.
scan(rows, resource_key, label) ==
    { [tipo |-> label, recurso |-> a[resource_key], a |-> a.id, b |-> b.id] :
      <<a, b>> \in {<<x, y>> \in rows \X rows :
                      /\ x[resource_key] # <<>>
                      /\ x[resource_key] = y[resource_key]
                      /\ SortsBefore(x, y)
                      /\ ~\E z \in rows : /\ z[resource_key] = x[resource_key]
                                          /\ SortsBefore(x, z) /\ SortsBefore(z, y)
                      /\ x.fim > y.inicio} }

detect_schedule_conflicts(df) ==
    scan(detect_rows(df), "equipe", "Equipe") \cup scan(detect_rows(df), "bomba", "Bomba")

\* Variant: the end time is the start time.
calc_hora_fim_start(hora_inicio, duracao_min) == hora_inicio

\* calc_hora_fim: start plus duration, wrapped at midnight; "" for no start.
calc_hora_fim(hora_inicio, duracao_min) ==
    IF hora_inicio = NoTime THEN NoTime
    ELSE LET total == (hora_inicio[1] * 60 + hora_inicio[2] + duracao_min) % MinutesPerDay
         IN  <<total \div 60, total % 60>>

\* to_time: 00:00 for a missing or blank value.
to_time(v) == IF v = NoTime THEN <<0, 0>> ELSE v

Max(a, b) == IF a > b THEN a ELSE b
Min(a, b) == IF a < b THEN a ELSE b

\* Variant: intervals that only touch count as overlapping.
intervals_overlap_closed(ai, af, bi, bf) ==
    LET a0 == Min(ai[1] * 60 + ai[2], af[1] * 60 + af[2])
        a1 == Max(ai[1] * 60 + ai[2], af[1] * 60 + af[2])
        b0 == Min(bi[1] * 60 + bi[2], bf[1] * 60 + bf[2])
        b1 == Max(bi[1] * 60 + bi[2], bf[1] * 60 + bf[2])
    IN  Max(a0, b0) <= Min(a1, b1)

\* intervals_overlap on times of day, each interval put in order first.
intervals_overlap(ai, af, bi, bf) ==
    LET am == ai[1] * 60 + ai[2]
        an == af[1] * 60 + af[2]
        bm == bi[1] * 60 + bi[2]
        bn == bf[1] * 60 + bf[2]
        a0 == IF an < am THEN an ELSE am
        a1 == IF an < am THEN am ELSE an
        b0 == IF bn < bm THEN bn ELSE bm
        b1 == IF bn < bm THEN bm ELSE bn
    IN  Max(a0, b0) < Min(a1, b1)

\* The statuses the weekly calendar keeps in a day group.
WeekActive == {"Agendado", "Aguardando", "Confirmado", "Execucao"}

\* The pairwise check of the weekly calendar: per day, every two kept rows;
\* same_resource per dimension, then intervals_overlap on start and hora_fim.
week_pairs(df) ==
    { [a |-> a.id, b |-> b.id,
       bomba  |-> strip(a.bomba) # <<>> /\ a.bomba = b.bomba,
       equipe |-> strip(a.equipe) # <<>> /\ a.equipe = b.equipe] :
      <<a, b>> \in {<<x, y>> \in df \X df :
                      /\ x.id # y.id
                      /\ x.data = y.data
                      /\ x.status \in WeekActive /\ y.status \in WeekActive
                      /\ \/ strip(x.bomba) # <<>> /\ x.bomba = y.bomba
                         \/ strip(x.equipe) # <<>> /\ x.equipe = y.equipe
                      /\ intervals_overlap(to_time(x.hora_inicio),
                                           to_time(calc_hora_fim(x.hora_inicio, x.duracao_min)),
                                           to_time(y.hora_inicio),
                                           to_time(calc_hora_fim(y.hora_inicio, y.duracao_min)))} }

\* conflicts_ids of the weekly calendar.
week_conflicts_ids(df) == {m.a : m \in week_pairs(df)} \cup {m.b : m \in week_pairs(df)}

\* _norm_status: trimmed, lower-cased, Portuguese diacritics removed.
Accented   == <<"á", "à", "â", "ã", "é", "ê", "í", "ó", "ô", "õ", "ú", "ç">>
Unaccented == <<"a", "a", "a", "a", "e", "e", "i", "o", "o", "o", "u", "c">>

translate_char(c) ==
    IF \E i \in DOMAIN Accented : Accented[i] = c
    THEN Unaccented[CHOOSE i \in DOMAIN Accented : Accented[i] = c]
    ELSE c

_norm_status(s) == [i \in 1..Len(lower(strip(s))) |-> translate_char(lower(strip(s))[i])]

_COMMITTED == {<<"a", "g", "e", "n", "d", "a", "d", "o">>,
               <<"a", "g", "u", "a", "r", "d", "a", "n", "d", "o">>,
               <<"c", "o", "n", "f", "i", "r", "m", "a", "d", "o">>,
               <<"e", "x", "e", "c", "u", "c", "a", "o">>}

is_committed_status(status) == _norm_status(StatusText[status]) \in _COMMITTED

\* The statuses the query of get_committed_collaborators lists.
SqlCommitted == {"Agendado", "Aguardando", "Confirmado", "Execucao", "Execução"}

\* COALESCE(colab_qtd, 1)
coalesce_colab_qtd(r) == IF r.colab_qtd = NullQty THEN 1 ELSE r.colab_qtd

\* COALESCE(SUM(COALESCE(colab_qtd, 1)), 0) over a set of rows.
RECURSIVE sum_colab_qtd(_)
sum_colab_qtd(rows) ==
    IF rows = {} THEN 0
    ELSE LET r == CHOOSE x \in rows : TRUE
         IN  coalesce_colab_qtd(r) + sum_colab_qtd(rows \ {r})

\* Variant: a failing query is reported as -1 instead of 0.
get_committed_collaborators_failing(tbl, date_str, failed) ==
    IF failed THEN -1
    ELSE sum_colab_qtd({r \in tbl : r.data = date_str /\ r.status \in SqlCommitted})

\* get_committed_collaborators: the head count committed on a date; 0 when
\* the query fails.
get_committed_collaborators(tbl, date_str, failed) ==
    IF failed THEN 0
    ELSE sum_colab_qtd({r \in tbl : r.data = date_str /\ r.status \in SqlCommitted})

\* The dates and statuses the functions are applied to.
FnDates    == {9, 10}
FnStatuses == DOMAIN StatusText

\* --- team capacity
\* get_config_value: the stored text, or None (NoValue) when the key has no
\* row, its valor is NULL, or the read fails.
get_config_value(cfg, key, failed) == IF failed THEN NoValue ELSE cfg[key]

Digits == <<"0", "1", "2", "3", "4", "5", "6", "7", "8", "9">>

IsDigit(c) == \E i \in DOMAIN Digits : Digits[i] = c

digit_value(c) == (CHOOSE i \in DOMAIN Digits : Digits[i] = c) - 1

\* str.replace(",", ".")
replace_comma(s) == [i \in 1..Len(s) |-> IF s[i] = "," THEN "." ELSE s[i]]

\* The text without its sign.
unsigned(s) == IF s # <<>> /\ Head(s) \in {"-", "+"} THEN Tail(s) ELSE s

\* The leading digits of a text.
RECURSIVE leading_digits(_)
leading_digits(s) ==
    IF s # <<>> /\ IsDigit(Head(s)) THEN <<Head(s)>> \o leading_digits(Tail(s)) ELSE <<>>

RECURSIVE digits_value(_)
digits_value(s) ==
    IF s = <<>> THEN 0 ELSE digits_value(SubSeq(s, 1, Len(s) - 1)) * 10 + digit_value(s[Len(s)])

\* float(text) accepts a sign, digits and an optional fraction.
float_ok(s) ==
    LET u    == unsigned(s)
        whole == leading_digits(u)
        rest == SubSeq(u, Len(whole) + 1, Len(u))
    IN  \/ whole # <<>> /\ rest = <<>>
        \/ /\ rest # <<>> /\ Head(rest) = "."
           /\ leading_digits(Tail(rest)) = Tail(rest)
           /\ whole # <<>> \/ Tail(rest) # <<>>

\* int(float(text)): the fraction is dropped.
int_float(s) ==
    LET n == digits_value(leading_digits(unsigned(s)))
    IN  IF s # <<>> /\ Head(s) = "-" THEN 0 - n ELSE n

\* config_get_int: the text under the key, or for team_capacity, when that
\* is missing or blank, the text under the legacy key; the default when the
\* text is no number.  failed1 and failed2 say which of the reads fail.
config_get_int(cfg, key, default, failed1, failed2) ==
    LET v1 == get_config_value(cfg, key, failed1)
        v  == IF (v1 = NoValue \/ strip(v1) = <<>>) /\ key = "team_capacity"
              THEN get_config_value(cfg, "capacidade_colaboradores", failed2)
              ELSE v1
        t  == replace_comma(strip(v))
    IN  IF v # NoValue /\ float_ok(t) THEN int_float(t) ELSE default

\* get_team_capacity(default=12)
DefaultCapacity == 12

\* Variant: the configured number is returned as it is.
get_team_capacity_unclamped(cfg, default, failed1, failed2) ==
    config_get_int(cfg, "team_capacity", default, failed1, failed2)

get_team_capacity(cfg, default, failed1, failed2) ==
    Max(1, config_get_int(cfg, "team_capacity", default, failed1, failed2))

\* Texts found in the valor column.
ConfigTexts ==
    { NoValue, <<"5">>, <<"0">>, <<"-", "3">>, <<" ">>, <<"a", "b">>, <<"2", ",", "7">> }

FnConfigs == [ConfigKeys -> ConfigTexts]

\* --- quantities
\* A number column or argument: None (SQL NULL), a finite number, or a float
\* that is not finite.  Volumes and truck capacities are counted in
\* hundredths of a cubic metre, so that 24.01 m3 is Num(2401).
Num(x)  == [kind |-> "number", x |-> x]
NoneNum == [kind |-> "None", x |-> 0]
Inf     == [kind |-> "inf", x |-> 0]
NaN     == [kind |-> "nan", x |-> 0]

\* float(x) if x is not None else 0.0
float_or_zero(x) == IF x.kind = "None" THEN Num(0) ELSE x

isfinite(x) == x.kind = "number"

\* math.ceil(v / c) for v, c > 0.
ceil_div(v, c) == IF v % c = 0 THEN v \div c ELSE v \div c + 1

\* Variant: the quotient is rounded down.
calc_trucks_floor(volume_m3, capacidade_m3) ==
    LET v == float_or_zero(volume_m3)
        c == float_or_zero(capacidade_m3)
    IN  IF ~isfinite(v) \/ ~isfinite(c) THEN 0
        ELSE IF v.x <= 0 \/ c.x <= 0 THEN 0
        ELSE v.x \div c.x

\* calc_trucks(volume_m3, capacidade_m3)
calc_trucks(volume_m3, capacidade_m3) ==
    LET v == float_or_zero(volume_m3)
        c == float_or_zero(capacidade_m3)
    IN  IF ~isfinite(v) \/ ~isfinite(c) THEN 0
        ELSE IF v.x <= 0 \/ c.x <= 0 THEN 0
        ELSE ceil_div(v.x, c.x)

\* Volumes and capacities calc_trucks is applied to.
FnVolumes    == {NoneNum, Inf, NaN} \cup {Num(x) : x \in {-800, 0, 1, 800, 1600, 2400, 2401, 3000}}
FnCapacities == {NoneNum, Inf, NaN} \cup {Num(x) : x \in {-800, 0, 10, 700, 800}}

\* --- end time as text
\* The text up to the first ":" and the text after it (str.split(":")).
RECURSIVE before_colon(_)
before_colon(s) ==
    IF s = <<>> \/ Head(s) = ":" THEN <<>> ELSE <<Head(s)>> \o before_colon(Tail(s))

after_colon(s) == SubSeq(s, Len(before_colon(s)) + 2, Len(s))

has_colon(s) == Len(before_colon(s)) < Len(s)

\* int(text) accepts blanks around a sign and digits.
int_ok(s) ==
    LET u == unsigned(strip(s))
    IN  u # <<>> /\ leading_digits(u) = u

int_text(s) ==
    LET n == digits_value(unsigned(strip(s)))
    IN  IF Head(strip(s)) = "-" THEN 0 - n ELSE n

\* f"{n:02d}" for 0 <= n < 100
fmt_02d(n) ==
    IF n < 10 THEN <<"0", Digits[n + 1]>> ELSE <<Digits[n \div 10 + 1], Digits[(n % 10) + 1]>>

\* f"{n}" for 0 <= n < 100
fmt_d(n) == IF n < 10 THEN <<Digits[n + 1]>> ELSE fmt_02d(n)

\* Variant: the hour is written without padding.
calc_hora_fim_unpadded(hora_inicio, duracao_min) ==
    IF hora_inicio = <<>> THEN <<>>
    ELSE LET s  == strip(hora_inicio)
             p0 == before_colon(s)
             p1 == before_colon(after_colon(s))
         IN  IF ~int_ok(p0) \/ (has_colon(s) /\ ~int_ok(p1)) THEN <<>>
             ELSE LET h     == int_text(p0)
                      m     == IF has_colon(s) THEN int_text(p1) ELSE 0
                      total == (h * 60 + m + duracao_min) % MinutesPerDay
                  IN  fmt_d(total \div 60) \o <<":">> \o fmt_02d(total % 60)

\* calc_hora_fim on the text of the start: "" for a blank start or one
\* that is no number, else the zero-padded text of the wrapped sum.
calc_hora_fim_text(hora_inicio, duracao_min) ==
    IF hora_inicio = <<>> THEN <<>>
    ELSE LET s  == strip(hora_inicio)
             p0 == before_colon(s)
             p1 == before_colon(after_colon(s))
         IN  IF ~int_ok(p0) \/ (has_colon(s) /\ ~int_ok(p1)) THEN <<>>
             ELSE LET h     == int_text(p0)
                      m     == IF has_colon(s) THEN int_text(p1) ELSE 0
                      total == (h * 60 + m + duracao_min) % MinutesPerDay
                  IN  fmt_02d(total \div 60) \o <<":">> \o fmt_02d(total % 60)

\* Start texts and durations calc_hora_fim is applied to.
FnStartTexts == { <<"0", "0", ":", "0", "0">>, <<"0", "8", ":", "0", "0">>,
                  <<"2", "2", ":", "1", "5">>, <<"2", "3", ":", "3", "0">>,
                  <<>>, <<"a", ":", "b">> }
FnDurations  == {-1500, -30, 0, 15, 60, 120, 960, 1440, 1500, 3000}

\* --- the quantities of a pour
SERVICE_TYPES == <<"Concretagem", "Ensaio de Solo", "Coleta de Solo", "Arrancamento",
                   "Coleta de Blocos", "Coleta de Prismas">>

\* A nullable number column read back into Python: None for NULL.
column(x) == IF x = NullQty THEN NoneNum ELSE Num(x)

\* calc_cp_qty(caminhoes, cps_por_caminhao)
calc_cp_qty(caminhoes, cps_por_caminhao) ==
    LET c == IF caminhoes.kind = "None" THEN 0 ELSE caminhoes.x
        p == IF cps_por_caminhao.kind = "None" THEN 0 ELSE cps_por_caminhao.x
    IN  IF c <= 0 \/ p <= 0 THEN 0 ELSE c * p

\* default_duration_min(volume_m3)
default_duration_min(volume_m3) == 60 + calc_trucks(volume_m3, Num(800)) * 12

\* The value the duration input of the create form starts with.
create_default_dur(tipo_servico) ==
    IF tipo_servico = "Concretagem" THEN default_duration_min(Num(3000)) ELSE 60

\* `x if x else None` on a number, stored as NULL.
null_if_falsy(x) == IF x = NullQty \/ x = 0 THEN NullQty ELSE x

\* The first number in a text, in hundredths (parse_number): an optional
\* sign, digits and an optional fraction after "." or ","; the default
\* (NULL) when the text holds no digit.
RECURSIVE from_first_digit(_)
from_first_digit(s) ==
    IF s = <<>> \/ IsDigit(Head(s)) THEN s ELSE from_first_digit(Tail(s))

parse_number(s) ==
    LET t     == from_first_digit(s)
        at    == Len(s) - Len(t)
        neg   == at >= 1 /\ s[at] = "-"
        whole == leading_digits(t)
        rest  == SubSeq(t, Len(whole) + 1, Len(t))
        frac  == IF Len(rest) >= 2 /\ rest[1] \in {".", ","} THEN leading_digits(Tail(rest))
                 ELSE <<>>
        cents == IF frac = <<>> THEN 0
                 ELSE IF Len(frac) = 1 THEN digit_value(frac[1]) * 10
                 ELSE digit_value(frac[1]) * 10 + digit_value(frac[2])
        n     == digits_value(whole) * 100 + cents
    IN  IF t = <<>> THEN NullQty ELSE IF neg THEN 0 - n ELSE n

\* slump.strip() if slump else None
strip_or_none(s) == IF s = <<>> THEN NoValue ELSE strip(s)

\* The create form after its `if tipo_servico == "Concretagem"`: the inputs
\* of a pour of concrete, or the values every other service is given.
create_values(f) ==
    IF f.tipo_servico = "Concretagem"
    THEN [volume |-> f.volume, fck |-> f.fck, slump |-> f.slump, cap |-> f.cap,
          cps_por_cam |-> f.cps_por_cam,
          caminhaos_est |-> calc_trucks(Num(f.volume), Num(f.cap)),
          formas_est |-> calc_cp_qty(Num(calc_trucks(Num(f.volume), Num(f.cap))),
                                     Num(f.cps_por_cam))]
    ELSE [volume |-> 0, fck |-> NullQty, slump |-> Blank, cap |-> NullQty,
          cps_por_cam |-> NullQty, caminhaos_est |-> 0, formas_est |-> 0]

\* The row inserted by the create handler.
insert_values(new_id, f, user) ==
    LET v == create_values(f)
    IN  [id |-> new_id, obra_id |-> f.obra_id, tipo_servico |-> f.tipo_servico,
         data |-> f.data, hora_inicio |-> f.hora_inicio,
         duracao_min |-> f.duracao_min, volume_m3 |-> v.volume, colab_qtd |-> f.colab_qtd,
         fck_mpa |-> null_if_falsy(v.fck), slump_mm |-> parse_number(v.slump),
         slump_txt |-> strip_or_none(v.slump),
         cap_caminhao_m3 |-> null_if_falsy(v.cap),
         cps_por_caminhao |-> null_if_falsy(v.cps_por_cam),
         caminhoes_est |-> null_if_falsy(v.caminhaos_est),
         formas_est |-> null_if_falsy(v.formas_est),
         bomba |-> strip(f.bomba), equipe |-> strip(f.equipe),
         status |-> f.status, observacoes |-> strip(f.observacoes),
         criado_por |-> user, alterado_por |-> user]

\* The estimates the edit form computes next to its last input.
new_caminhoes_est(f) ==
    IF f.tipo_servico = "Concretagem" THEN calc_trucks(Num(f.volume), Num(f.cap)) ELSE 0

new_formas_est(f) ==
    IF f.tipo_servico = "Concretagem"
    THEN calc_cp_qty(Num(new_caminhoes_est(f)), Num(f.cps_por_cam)) ELSE 0

\* Variant: an UPDATE that writes only the fields the form changed with
\* respect to the snapshot read at the start of the handler.
update_values_changed_only(r, bef, f, user) ==
    IF bef = NoRow THEN r
    ELSE [r EXCEPT
            !.status = IF f.status # bef.status THEN f.status ELSE @,
            !.duracao_min = IF f.duracao_min # bef.duracao_min THEN f.duracao_min ELSE @,
            !.bomba = IF strip(f.bomba) # bef.bomba THEN strip(f.bomba) ELSE @,
            !.equipe = IF strip(f.equipe) # bef.equipe THEN strip(f.equipe) ELSE @,
            !.observacoes = IF strip(f.observacoes) # bef.observacoes
                            THEN strip(f.observacoes) ELSE @,
            !.alterado_por = user]

\* Variant: the UPDATE also writes the head count of the form.
update_values_with_colab_qtd(r, bef, f, user) ==
    [r EXCEPT !.status = f.status, !.duracao_min = f.duracao_min,
              !.colab_qtd = f.colab_qtd,
              !.bomba = strip(f.bomba), !.equipe = strip(f.equipe),
              !.slump_mm = parse_number(f.slump), !.slump_txt = strip_or_none(f.slump),
              !.volume_m3 = f.volume, !.tipo_servico = f.tipo_servico,
              !.cap_caminhao_m3 = null_if_falsy(f.cap),
              !.cps_por_caminhao = null_if_falsy(f.cps_por_cam),
              !.caminhoes_est = new_caminhoes_est(f), !.formas_est = new_formas_est(f),
              !.fck_mpa = null_if_falsy(f.fck),
              !.observacoes = strip(f.observacoes), !.alterado_por = user]

\* Variant: the estimates are left as they were.
update_values_stale_estimates(r, bef, f, user) ==
    [r EXCEPT !.status = f.status, !.duracao_min = f.duracao_min,
              !.bomba = strip(f.bomba), !.equipe = strip(f.equipe),
              !.slump_mm = parse_number(f.slump), !.slump_txt = strip_or_none(f.slump),
              !.volume_m3 = f.volume, !.tipo_servico = f.tipo_servico,
              !.cap_caminhao_m3 = null_if_falsy(f.cap),
              !.cps_por_caminhao = null_if_falsy(f.cps_por_cam),
              !.fck_mpa = null_if_falsy(f.fck),
              !.observacoes = strip(f.observacoes), !.alterado_por = user]

\* The row as rewritten by the UPDATE of the edit handler: every field of the
\* form but the head count is written, whatever the snapshot `bef` read at
\* the start held; date, start time, site, head count and creator are not
\* among the columns of the statement.
update_values(r, bef, f, user) ==
    [r EXCEPT !.status = f.status, !.duracao_min = f.duracao_min,
              !.bomba = strip(f.bomba), !.equipe = strip(f.equipe),
              !.slump_mm = parse_number(f.slump), !.slump_txt = strip_or_none(f.slump),
              !.volume_m3 = f.volume, !.tipo_servico = f.tipo_servico,
              !.cap_caminhao_m3 = null_if_falsy(f.cap),
              !.cps_por_caminhao = null_if_falsy(f.cps_por_cam),
              !.caminhoes_est = new_caminhoes_est(f), !.formas_est = new_formas_est(f),
              !.fck_mpa = null_if_falsy(f.fck),
              !.observacoes = strip(f.observacoes), !.alterado_por = user]

\* ------------------------------------------------------------------- Init
\* Largest primary key of concretagens in a behaviour.
MaxId == MaxOps + 1

\* The user who booked the pour the database may start with.
EarlierUser == 0

\* Changes made to the pour table, counted per kind and pour id.
MutKinds == {"CREATE", "UPDATE", "DELETE", "CANCEL_FALLBACK"}
NoMuts == [m \in MutKinds \X (1..MaxId) |-> 0]
Changed(m, action, k) == [m EXCEPT ![<<action, k>>] = @ + 1]

\* No function evaluated yet.
NoCall == [fn |-> "none"]
NoResult == [none |-> TRUE]

\* The database the application starts on: empty, or holding one pour that
\* was booked earlier through the create handler, with its CREATE row.
InitTables ==
    \/ /\ concretagens = {}
       /\ historico = <<>>
       /\ seq = 0
       /\ muts = NoMuts
    \/ LET row == insert_values(1, BookedForm, EarlierUser)
       IN  /\ concretagens = {row}
           /\ historico = add_history(<<>>, 1, "CREATE", None, row, EarlierUser)
           /\ seq = 1
           /\ muts = Changed(NoMuts, "CREATE", 1)

\* No handler has run and no function has been evaluated.
InitLocals ==
    /\ pc = [p \in Sessions |-> "idle"]
    /\ op = [p \in Sessions |-> "none"]
    /\ form = [p \in Sessions |-> NoForm]
    /\ sel = [p \in Sessions |-> NoId]
    /\ before = [p \in Sessions |-> NoRow]
    /\ after = [p \in Sessions |-> NoRow]
    /\ conflicts = [p \in Sessions |-> {}]
    /\ warned = [p \in Sessions |-> "none"]
    /\ ret = [p \in Sessions |-> "none"]
    /\ ops = 0
    /\ faults = 0
    /\ saved = [p \in Sessions |-> FALSE]
    /\ reread = [p \in Sessions |-> "none"]
    /\ delRaised = [p \in Sessions |-> FALSE]
    /\ wrote = [p \in Sessions |-> {}]
    /\ lastWriter = [k \in 1..MaxId |-> 0]
    /\ call = NoCall
    /\ result = NoResult

Init ==
    /\ InitTables
    /\ config = [k \in ConfigKeys |-> NoValue]
    /\ InitLocals

\* Variant: the fallback branches fall through to the final `return True`.
delete_result_always_true(seen) == "True"

\* The boolean returned by delete_concretagem_by_id after its last look at
\* the table: True when the pour is gone, False when it is still there or the
\* delete attempt raised.
delete_result(seen) == IF seen = "absent" THEN "True" ELSE "False"

\* Variant: a handler that stops when the conflict check found a match.
after_conflict_check_blocking(found, nxt) == IF found # {} THEN "done" ELSE nxt

\* `if conflicts: st.warning(...); st.dataframe(...)`: the handler shows the
\* matches and goes on to its next statement either way.
after_conflict_check(found, nxt) == nxt

\* Variant: a table with an exclusion constraint, which refuses a row that
\* conflicts with a stored one.
insert_row_exclusive(tbl, row) ==
    IF find_conflicts(tbl, row.data, row.hora_inicio, row.duracao_min,
                      row.bomba, row.equipe, NoId) # {}
    THEN tbl ELSE tbl \cup {row}

\* INSERT INTO concretagens: the table has no constraint on overlapping pours.
insert_row(tbl, row) == tbl \cup {row}

\* The observations the fallback of delete_concretagem_by_id computes:
\* (cur_obs + ("\n" if cur_obs else "") + note)[:2000]
MaxObsLen == 2000
NoteRaised == <<"Cancelado automaticamente (falha ao excluir).">>
NoteStayed == <<"Cancelado automaticamente (registro permaneceu após tentativa de exclusão).">>
fallback_obs(bef, note) ==
    LET cur_obs == strip(bef.observacoes)
        obs2    == cur_obs \o (IF cur_obs # <<>> THEN <<"\n">> ELSE <<>>) \o note
    IN  SubSeq(obs2, 1, IF Len(obs2) < MaxObsLen THEN Len(obs2) ELSE MaxObsLen)

\* Any database statement of a handler may fail, up to MaxFaults times in a
\* behaviour.
CanFail == faults < MaxFaults

\* A statement outside any try block raised: the handler is abandoned.
Raise(p) ==
    /\ CanFail
    /\ faults' = faults + 1
    /\ pc' = [pc EXCEPT ![p] = "raised"]

\* Locals of a handler that starts.  Sessions run the same code, so a
\* behaviour and its renaming of sessions differ in nothing the handlers can
\* tell apart: only the behaviours in which sessions open in the order of
\* their numbers are kept.
Begin(p, kind, f, k, at) ==
    /\ pc[p] \in {"idle", "done", "raised"}
    /\ \A q \in Sessions : q < p => op[q] # "none"
    /\ ops < MaxOps
    /\ ops' = ops + 1
    /\ pc' = [pc EXCEPT ![p] = at]
    /\ op' = [op EXCEPT ![p] = kind]
    /\ form' = [form EXCEPT ![p] = f]
    /\ sel' = [sel EXCEPT ![p] = k]
    /\ before' = [before EXCEPT ![p] = NoRow]
    /\ after' = [after EXCEPT ![p] = NoRow]
    /\ conflicts' = [conflicts EXCEPT ![p] = {}]
    /\ ret' = [ret EXCEPT ![p] = "none"]
    /\ saved' = [saved EXCEPT ![p] = FALSE]
    /\ reread' = [reread EXCEPT ![p] = "none"]
    /\ delRaised' = [delRaised EXCEPT ![p] = FALSE]
    /\ wrote' = [wrote EXCEPT ![p] = {}]
    /\ warned' = [warned EXCEPT ![p] = "none"]
    /\ UNCHANGED <<fnvars, concretagens, historico, seq, faults, lastWriter, muts>>

\* A handler starts; the config table is not touched by that.
BeginPour(p, kind, f, k, at) == Begin(p, kind, f, k, at) /\ UNCHANGED config

\* ------------------------------------------------ create ("Novo agendamento")
StartCreate(p, f) ==
    /\ BeginPour(p, "create", f, NoId, "c_cap")

\* _projected > int(_cap_total), with _projected = int(_committed) + int(colab_qtd or 1)
over_capacity(committed, colab_qtd, cap_total) ==
    committed + (IF colab_qtd = 0 THEN 1 ELSE colab_qtd) > cap_total

\* The statements of the form before the submit button:
\*   _cap_total = get_team_capacity(12)
\*   _committed = get_committed_collaborators(d.strftime("%Y-%m-%d"))
\*   if _projected > int(_cap_total): st.warning(...)
\* The reads write nothing and only feed the warning, so they are one step.
\* Each of them may fail; its function catches the failure and returns a
\* default, so the handler cannot tell and goes on: these failures are not
\* among the faults a handler sees.  The legacy key is read only when
\* team_capacity gave no text.
CreateCapacity(p) ==
    /\ pc[p] = "c_cap"
    /\ \E failed1, failed2, failed3 \in BOOLEAN :
          /\ failed2 => (failed1 \/ config["team_capacity"] = NoValue)
          /\ warned' = [warned EXCEPT ![p] =
                IF over_capacity(
                       get_committed_collaborators(concretagens, form[p].data, failed3),
                       form[p].colab_qtd,
                       get_team_capacity(config, DefaultCapacity, failed1, failed2))
                THEN "yes" ELSE "no"]
    /\ pc' = [pc EXCEPT ![p] = "c_check"]
    /\ UNCHANGED <<fnvars, config, op, concretagens, historico, seq, form, sel, before, after,
                   conflicts, ret, ops, faults, saved, reread, delRaised, wrote, lastWriter,
                   muts>>

\* conflicts = find_conflicts(data_str, hora_str, int(dur), bomba, equipe, None)
CreateCheck(p) ==
    /\ pc[p] = "c_check"
    /\ \/ /\ conflicts' = [conflicts EXCEPT ![p] =
                find_conflicts(concretagens, form[p].data, form[p].hora_inicio,
                               form[p].duracao_min, form[p].bomba, form[p].equipe, NoId)]
          /\ pc' = [pc EXCEPT ![p] = after_conflict_check(conflicts'[p], "c_insert")]
          /\ UNCHANGED faults
       \/ Raise(p) /\ UNCHANGED conflicts
    /\ UNCHANGED <<fnvars, capvars, config, op, concretagens, historico, seq, form, sel, before, after, ret, ops,
                   saved, reread, delRaised, wrote, lastWriter, muts>>

\* new_id = exec_stmt(insert(concretagens).values(...))
CreateInsert(p) ==
    /\ pc[p] = "c_insert"
    /\ \/ /\ seq' = seq + 1
          /\ concretagens' = insert_row(concretagens, insert_values(seq + 1, form[p], current_user(p)))
          /\ sel' = [sel EXCEPT ![p] = seq + 1]
          /\ saved' = [saved EXCEPT ![p] = TRUE]
          /\ muts' = Changed(muts, "CREATE", seq + 1)
          /\ pc' = [pc EXCEPT ![p] = "c_after"]
          /\ UNCHANGED faults
       \/ Raise(p) /\ UNCHANGED <<seq, concretagens, sel, saved, muts>>
    /\ UNCHANGED <<fnvars, capvars, config, op, historico, form, before, after, conflicts, ret, ops,
                   reread, delRaised, wrote, lastWriter>>

\* after = get_concretagem_by_id(new_id)
CreateReadAfter(p) ==
    /\ pc[p] = "c_after"
    /\ \/ /\ after' = [after EXCEPT ![p] = get_concretagem_by_id(concretagens, sel[p])]
          /\ pc' = [pc EXCEPT ![p] = "c_hist"]
          /\ UNCHANGED faults
       \/ Raise(p) /\ UNCHANGED after
    /\ UNCHANGED <<fnvars, capvars, config, op, concretagens, historico, seq, form, sel, before, conflicts, ret, ops,
                   saved, reread, delRaised, wrote, lastWriter, muts>>

\* try: add_history(new_id, "CREATE", None, after, user) / except: pass
CreateHist(p) ==
    /\ pc[p] = "c_hist"
    /\ pc' = [pc EXCEPT ![p] = "done"]
    /\ \/ /\ historico' = add_history(historico, sel[p], "CREATE", None, after[p], current_user(p))
          /\ wrote' = [wrote EXCEPT ![p] = @ \cup {Len(historico) + 1}]
          /\ UNCHANGED faults
       \/ /\ CanFail
          /\ faults' = faults + 1
          /\ UNCHANGED <<historico, wrote>>
    /\ UNCHANGED <<fnvars, capvars, config, op, concretagens, seq, form, sel, before, after, conflicts, ret, ops,
                   saved, reread, delRaised, lastWriter, muts>>

\* ----------------------------------------------------- edit ("Agenda (lista)")
\* The user picks a listed pour and fills the edit form.
StartEdit(p, k, f) ==
    /\ k \in Ids(concretagens)
    /\ BeginPour(p, "edit", f, k, "e_before")

\* before = get_concretagem_by_id(int(sel_id))
EditReadBefore(p) ==
    /\ pc[p] = "e_before"
    /\ \/ /\ before' = [before EXCEPT ![p] = get_concretagem_by_id(concretagens, sel[p])]
          /\ pc' = [pc EXCEPT ![p] = "e_check"]
          /\ UNCHANGED faults
       \/ Raise(p) /\ UNCHANGED before
    /\ UNCHANGED <<fnvars, capvars, config, op, concretagens, historico, seq, form, sel, after, conflicts, ret, ops,
                   saved, reread, delRaised, wrote, lastWriter, muts>>

\* conflicts = find_conflicts(data_str, hora_str, int(new_dur), new_bomba,
\*                            new_equipe, ignore_id=int(sel_id))
EditCheck(p) ==
    /\ pc[p] = "e_check"
    /\ \/ /\ conflicts' = [conflicts EXCEPT ![p] =
                find_conflicts(concretagens,
                               IF before[p] = NoRow THEN NoDate ELSE before[p].data,
                               IF before[p] = NoRow THEN NoTime ELSE before[p].hora_inicio,
                               form[p].duracao_min, form[p].bomba, form[p].equipe, sel[p])]
          /\ pc' = [pc EXCEPT ![p] = after_conflict_check(conflicts'[p], "e_update")]
          /\ UNCHANGED faults
       \/ Raise(p) /\ UNCHANGED conflicts
    /\ UNCHANGED <<fnvars, capvars, config, op, concretagens, historico, seq, form, sel, before, after, ret, ops,
                   saved, reread, delRaised, wrote, lastWriter, muts>>

\* conn.execute(update(concretagens).where(concretagens.c.id == int(sel_id)).values(...))
EditUpdate(p) ==
    /\ pc[p] = "e_update"
    /\ \/ /\ concretagens' = {IF r.id = sel[p] THEN update_values(r, before[p], form[p], current_user(p))
                                               ELSE r : r \in concretagens}
          /\ saved' = [saved EXCEPT ![p] = TRUE]
          /\ lastWriter' = IF sel[p] \in Ids(concretagens)
                           THEN [lastWriter EXCEPT ![sel[p]] = p] ELSE lastWriter
          /\ muts' = IF sel[p] \in Ids(concretagens)
                     THEN Changed(muts, "UPDATE", sel[p]) ELSE muts
          /\ pc' = [pc EXCEPT ![p] = "e_after"]
          /\ UNCHANGED faults
       \/ Raise(p) /\ UNCHANGED <<concretagens, saved, lastWriter, muts>>
    /\ UNCHANGED <<fnvars, capvars, config, op, historico, seq, form, sel, before, after, conflicts, ret, ops,
                   reread, delRaised, wrote>>

\* after = get_concretagem_by_id(int(sel_id))
EditReadAfter(p) ==
    /\ pc[p] = "e_after"
    /\ \/ /\ after' = [after EXCEPT ![p] = get_concretagem_by_id(concretagens, sel[p])]
          /\ pc' = [pc EXCEPT ![p] = "e_hist"]
          /\ UNCHANGED faults
       \/ Raise(p) /\ UNCHANGED after
    /\ UNCHANGED <<fnvars, capvars, config, op, concretagens, historico, seq, form, sel, before, conflicts, ret, ops,
                   saved, reread, delRaised, wrote, lastWriter, muts>>

\* try: add_history(int(sel_id), "UPDATE", before, after, user) / except: pass
EditHist(p) ==
    /\ pc[p] = "e_hist"
    /\ pc' = [pc EXCEPT ![p] = "done"]
    /\ \/ /\ historico' = add_history(historico, sel[p], "UPDATE", before[p], after[p], current_user(p))
          /\ wrote' = [wrote EXCEPT ![p] = @ \cup {Len(historico) + 1}]
          /\ UNCHANGED faults
       \/ /\ CanFail
          /\ faults' = faults + 1
          /\ UNCHANGED <<historico, wrote>>
    /\ UNCHANGED <<fnvars, capvars, config, op, concretagens, seq, form, sel, before, after, conflicts, ret, ops,
                   saved, reread, delRaised, lastWriter, muts>>

\* Variant: the delete statement runs whether or not the DELETE entry was
\* written.
delete_after_history_always(raised) == "d_delete"

\* delete_concretagem_by_id, the try block: add_history and the delete
\* statement share it, so a failing add_history skips the delete statement
\* and enters the except branch.
delete_after_history(raised) == IF raised THEN "d_fallback" ELSE "d_delete"

\* ------------------------------------------------- delete_concretagem_by_id
\* The user confirms the deletion of a listed pour.
StartDelete(p, k) ==
    /\ k \in Ids(concretagens)
    /\ BeginPour(p, "delete", NoForm, k, "d_before")

\* before = get_concretagem_by_id(cid); if not before: return True
DeleteReadBefore(p) ==
    /\ pc[p] = "d_before"
    /\ \/ /\ before' = [before EXCEPT ![p] = get_concretagem_by_id(concretagens, sel[p])]
          /\ IF sel[p] \in Ids(concretagens)
             THEN /\ pc' = [pc EXCEPT ![p] = "d_hist"]
                  /\ UNCHANGED ret
             ELSE /\ pc' = [pc EXCEPT ![p] = "done"]
                  /\ ret' = [ret EXCEPT ![p] = "True"]
          /\ UNCHANGED faults
       \/ Raise(p) /\ UNCHANGED <<before, ret>>
    /\ UNCHANGED <<fnvars, capvars, config, op, concretagens, historico, seq, form, sel, after, conflicts, ops,
                   saved, reread, delRaised, wrote, lastWriter, muts>>

\* try: add_history(cid, "DELETE", before, None, user)
DeleteHist(p) ==
    /\ pc[p] = "d_hist"
    /\ \/ /\ historico' = add_history(historico, sel[p], "DELETE", before[p], None, current_user(p))
          /\ wrote' = [wrote EXCEPT ![p] = @ \cup {Len(historico) + 1}]
          /\ pc' = [pc EXCEPT ![p] = delete_after_history(FALSE)]
          /\ UNCHANGED <<faults, delRaised>>
       \/ /\ CanFail
          /\ faults' = faults + 1
          /\ delRaised' = [delRaised EXCEPT ![p] = TRUE]
          /\ pc' = [pc EXCEPT ![p] = delete_after_history(TRUE)]
          /\ UNCHANGED <<historico, wrote>>
    /\ UNCHANGED <<fnvars, capvars, config, op, concretagens, seq, form, sel, before, after, conflicts, ret, ops,
                   saved, reread, lastWriter, muts>>

\* exec_stmt(delete(concretagens).where(concretagens.c.id == cid)): the row
\* is removed, or the statement raises, or the backend's row-level security
\* lets the statement pass without removing the row.
DeleteStmt(p) ==
    /\ pc[p] = "d_delete"
    /\ \/ /\ concretagens' = {r \in concretagens : r.id # sel[p]}
          /\ muts' = IF sel[p] \in Ids(concretagens)
                     THEN Changed(muts, "DELETE", sel[p]) ELSE muts
          /\ pc' = [pc EXCEPT ![p] = "d_reread"]
          /\ UNCHANGED <<faults, delRaised>>
       \/ /\ CanFail
          /\ faults' = faults + 1
          /\ delRaised' = [delRaised EXCEPT ![p] = TRUE]
          /\ pc' = [pc EXCEPT ![p] = "d_fallback"]
          /\ UNCHANGED <<concretagens, muts>>
       \/ /\ CanFail
          /\ faults' = faults + 1
          /\ pc' = [pc EXCEPT ![p] = "d_reread"]
          /\ UNCHANGED <<concretagens, muts, delRaised>>
    /\ UNCHANGED <<fnvars, capvars, config, op, historico, seq, form, sel, before, after, conflicts, ret, ops,
                   saved, reread, wrote, lastWriter>>

\* if get_concretagem_by_id(cid): <fallback>; return False / return True
DeleteReread(p) ==
    /\ pc[p] = "d_reread"
    /\ \/ /\ IF sel[p] \in Ids(concretagens)
             THEN /\ reread' = [reread EXCEPT ![p] = "present"]
                  /\ pc' = [pc EXCEPT ![p] = "d_fallback"]
                  /\ UNCHANGED ret
             ELSE /\ reread' = [reread EXCEPT ![p] = "absent"]
                  /\ pc' = [pc EXCEPT ![p] = "done"]
                  /\ ret' = [ret EXCEPT ![p] = delete_result("absent")]
          /\ UNCHANGED faults
       \/ Raise(p) /\ UNCHANGED <<reread, ret>>
    /\ UNCHANGED <<fnvars, capvars, config, op, concretagens, historico, seq, form, sel, before, after, conflicts, ops,
                   saved, delRaised, wrote, lastWriter, muts>>

\* The fallback of both branches: the keyword arguments of .values(...) are
\* evaluated first, and updated_at=utcnow() names a function that the module
\* never defines, so a NameError is raised before the UPDATE is built; the
\* enclosing `except Exception: pass` swallows it.  Neither the UPDATE nor
\* add_history(cid, "CANCEL_FALLBACK", ...) runs, and False is returned.
CancelFallback(p) ==
    /\ pc[p] = "d_fallback"
    /\ pc' = [pc EXCEPT ![p] = "done"]
    /\ ret' = [ret EXCEPT ![p] = delete_result("present")]
    /\ UNCHANGED <<fnvars, capvars, config, op, concretagens, historico, seq, form, sel, before, after, conflicts, ops,
                   faults, saved, reread, delRaised, wrote, lastWriter, muts>>

\* ------------------------------------------- "Capacidade diária" (admin page)
\* The admin enters a value and presses "Salvar capacidade".
StartSaveCapacity(p, novo) ==
    /\ BeginPour(p, "config", [novo |-> novo], NoId, "s_capacity")

\* config_set_int("team_capacity", int(novo)): set_config_value(key, str(iv))
SaveCapacity(p) ==
    /\ pc[p] = "s_capacity"
    /\ \/ /\ config' = set_config_value(config, "team_capacity", str_int(form[p].novo))
          /\ pc' = [pc EXCEPT ![p] = "s_legacy"]
          /\ UNCHANGED faults
       \/ Raise(p) /\ UNCHANGED config
    /\ UNCHANGED <<fnvars, capvars, op, concretagens, historico, seq, form, sel, before, after, conflicts,
                   ret, ops, saved, reread, delRaised, wrote, lastWriter, muts>>

\* if key == "team_capacity": set_config_value("capacidade_colaboradores", ...)
SaveCapacityLegacy(p) ==
    /\ pc[p] = "s_legacy"
    /\ \/ /\ config' = set_config_value(config, "capacidade_colaboradores", str_int(form[p].novo))
          /\ pc' = [pc EXCEPT ![p] = "done"]
          /\ UNCHANGED faults
       \/ Raise(p) /\ UNCHANGED config
    /\ UNCHANGED <<fnvars, capvars, op, concretagens, historico, seq, form, sel, before, after, conflicts,
                   ret, ops, saved, reread, delRaised, wrote, lastWriter, muts>>

Next ==
    \E p \in Sessions :
        \/ \E f \in CreateForms : StartCreate(p, f)
        \/ CreateCapacity(p)
        \/ CreateCheck(p)
        \/ CreateInsert(p)
        \/ CreateReadAfter(p)
        \/ CreateHist(p)
        \/ \E k \in 1..MaxId, f \in EditForms : StartEdit(p, k, f)
        \/ EditReadBefore(p)
        \/ EditCheck(p)
        \/ EditUpdate(p)
        \/ EditReadAfter(p)
        \/ EditHist(p)
        \/ \E k \in 1..MaxId : StartDelete(p, k)
        \/ DeleteReadBefore(p)
        \/ DeleteHist(p)
        \/ DeleteStmt(p)
        \/ DeleteReread(p)
        \/ CancelFallback(p)
        \/ \E novo \in CapInputs : StartSaveCapacity(p, novo)
        \/ SaveCapacity(p)
        \/ SaveCapacityLegacy(p)

Spec == Init /\ [][Next]_vars

\* ================================================================ properties
Row(k) == get_concretagem_by_id(concretagens, k)

Running(p) == pc[p] \notin {"idle", "done", "raised"}

\* The history rows the running call of session p wrote with a given action.
WroteAction(p, h, w, action) == {i \in w[p] : h[i].acao = action}

\* delete_concretagem_by_id of session p returns in this step.
DeleteReturns(p) == op[p] = "delete" /\ pc[p] \in {"d_before", "d_reread", "d_fallback"} /\ pc'[p] = "done"

\* C1: when delete_concretagem_by_id returns after the delete attempt raised
\* or the re-read found the pour still there, the stored pour has status
\* "Cancelado", its observations are the original ones with the automatic
\* note appended, and the call has written a CANCEL_FALLBACK history row with
\* before = the original row and after = {status: "Cancelado"}.
C1_FallbackCancels ==
    [][\A p \in Sessions :
          (DeleteReturns(p) /\ (delRaised[p] \/ reread[p] = "present")
             /\ sel[p] \in Ids(concretagens'))
          => LET r == get_concretagem_by_id(concretagens', sel[p])
             IN  /\ r.status = "Cancelado"
                 /\ r.observacoes \in {fallback_obs(before[p], NoteRaised),
                                       fallback_obs(before[p], NoteStayed)}
                 /\ \E i \in wrote'[p] :
                        /\ historico'[i].acao = "CANCEL_FALLBACK"
                        /\ historico'[i].entidade_id = sel[p]
                        /\ historico'[i].before = before[p]
                        /\ historico'[i].after = [status |-> "Cancelado"]]_vars

\* C2: once delete_concretagem_by_id has returned False and the pour is
\* still stored, the call has written a CANCEL_FALLBACK row and no DELETE row.
C2_FallbackLogsNoDelete ==
    \A p \in Sessions :
        (op[p] = "delete" /\ pc[p] = "done" /\ ret[p] = "False"
           /\ sel[p] \in Ids(concretagens))
        => /\ WroteAction(p, historico, wrote, "CANCEL_FALLBACK") # {}
           /\ WroteAction(p, historico, wrote, "DELETE") = {}

\* C3: delete_concretagem_by_id returns True only if its last read found no
\* pour (none at entry, or none on the re-read), and returns False whenever
\* the delete attempt raised or the re-read found the pour.
C3_ReturnValue ==
    \A p \in Sessions :
        (op[p] = "delete" /\ pc[p] = "done")
        => /\ ret[p] \in {"True", "False"}
           /\ ret[p] = "True" =>
                \/ before[p] = NoRow /\ reread[p] = "none"
                \/ reread[p] = "absent"
           /\ (delRaised[p] \/ reread[p] = "present") => ret[p] = "False"

\* C3 witness: a call returned False after its re-read found the pour, while
\* the other session's call returned True after its re-read found none.
C3_Witness ==
    \E p, q \in Sessions :
        /\ op[p] = "delete" /\ pc[p] = "done" /\ ret[p] = "False" /\ reread[p] = "present"
        /\ op[q] = "delete" /\ pc[q] = "done" /\ ret[q] = "True" /\ reread[q] = "absent"

\* C4: delete_concretagem_by_id never propagates an error to its caller,
\* whichever of its persistence operations fails.
C4_DeleteNeverRaises ==
    \A p \in Sessions : op[p] = "delete" => pc[p] # "raised"

HistCount(actions, k) ==
    Cardinality({i \in DOMAIN historico :
                    historico[i].acao \in actions /\ historico[i].entidade_id = k})

MutCount(action, k) ==
    muts[<<action, k>>]

\* C5: when no handler is running, the history holds exactly one row per
\* change made to the pour table: one CREATE per inserted pour, one UPDATE
\* per applied edit, one DELETE or CANCEL_FALLBACK per removed or cancelled
\* pour.
C5_OneEntryPerMutation ==
    (\A p \in Sessions : ~Running(p))
    => \A k \in 1..MaxId :
          /\ HistCount({"CREATE"}, k) = MutCount("CREATE", k)
          /\ HistCount({"UPDATE"}, k) = MutCount("UPDATE", k)
          /\ HistCount({"DELETE", "CANCEL_FALLBACK"}, k)
               = MutCount("DELETE", k) + MutCount("CANCEL_FALLBACK", k)

\* C6: the history is append-only: every step keeps each existing history
\* row, unchanged and at its place, and can only add rows after them.
C6_HistoryAppendOnly ==
    [][/\ Len(historico') >= Len(historico)
       /\ SubSeq(historico', 1, Len(historico)) = historico]_vars

\* C6 witness: a create, an edit and a delete that ended in the fallback have
\* all written to the history.
C6_Witness ==
    /\ \E i \in DOMAIN historico : historico[i].acao = "CREATE"
    /\ \E i \in DOMAIN historico : historico[i].acao = "UPDATE"
    /\ \E i \in DOMAIN historico : historico[i].acao = "DELETE"
    /\ \E p \in Sessions : op[p] = "delete" /\ pc[p] = "done" /\ ret[p] = "False"

\* C7: find_conflicts never blocks a save: a create or edit handler that is
\* past its conflict check goes on to its insert/update statement, and a
\* handler that completed has executed it, whatever the check returned.
C7_ConflictsNeverBlock ==
    \A p \in Sessions :
        /\ (op[p] = "create" /\ pc[p] \in {"c_after", "c_hist", "done"}) => saved[p]
        /\ (op[p] = "edit" /\ pc[p] \in {"e_after", "e_hist", "done"}) => saved[p]
        /\ (op[p] \in {"create", "edit"} /\ conflicts[p] # {})
             => pc[p] \in {"c_insert", "c_after", "c_hist",
                           "e_update", "e_after", "e_hist", "done", "raised"}

\* C7 witness: a create and an edit have both completed their save after a
\* conflict check that returned matches.
C7_Witness ==
    \E p, q \in Sessions :
        /\ op[p] = "create" /\ pc[p] = "done" /\ conflicts[p] # {} /\ saved[p]
        /\ op[q] = "edit" /\ pc[q] = "done" /\ conflicts[q] # {} /\ saved[q]

Start(r) == combine(r.data, _parse_time(r.hora_inicio))
End(r)   == Start(r) + r.duracao_min

SamePumpOverlap(a, b) ==
    /\ a.data = b.data
    /\ lower(strip(a.bomba)) # <<>>
    /\ lower(strip(a.bomba)) = lower(strip(b.bomba))
    /\ Start(a) < End(b)
    /\ Start(b) < End(a)

\* C8: the insert of the create handler is not conditioned on the table
\* holding no conflicting pour: whenever the insert statement completes, the
\* new row is stored under the next id, next to every row already there.
C8_InsertUnconditional ==
    [][\A p \in Sessions :
          (pc[p] = "c_insert" /\ pc'[p] = "c_after")
          => /\ insert_values(seq + 1, form[p], current_user(p)) \in concretagens'
             /\ concretagens \subseteq concretagens']_vars

\* C8 witness (the check-then-act race): two create handlers whose conflict
\* checks both returned no match have both inserted, and the table holds
\* their two overlapping pours on the same day and pump.
C8_Witness ==
    \E p, q \in Sessions :
        /\ p # q
        /\ op[p] = "create" /\ op[q] = "create"
        /\ saved[p] /\ saved[q]
        /\ conflicts[p] = {} /\ conflicts[q] = {}
        /\ sel[p] \in Ids(concretagens) /\ sel[q] \in Ids(concretagens)
        /\ SamePumpOverlap(Row(sel[p]), Row(sel[q]))

\* The fields the edit form writes hold the values of form f sent by user u.
HoldsEdit(r, f, u) ==
    /\ r.status = f.status
    /\ r.duracao_min = f.duracao_min
    /\ r.bomba = strip(f.bomba)
    /\ r.equipe = strip(f.equipe)
    /\ r.observacoes = strip(f.observacoes)
    /\ r.alterado_por = u

ConflictIds(found) == {c.id : c \in found}

\* C10: find_conflicts with ignore_id = k never returns pour k: not in the
\* conflict check of an edit handler, and not for any stored pour k checked
\* against its own stored date, start, duration, pump and crew or against any
\* edit form.
C10_IgnoreIdExcluded ==
    /\ \A p \in Sessions :
          (op[p] = "edit" /\ pc[p] \in {"e_update", "e_after", "e_hist", "done"})
          => sel[p] \notin ConflictIds(conflicts[p])
    /\ \A r \in concretagens :
          /\ r.id \notin ConflictIds(find_conflicts(concretagens, r.data, r.hora_inicio,
                                       r.duracao_min, r.bomba, r.equipe, r.id))
          /\ \A f \in EditForms :
                r.id \notin ConflictIds(find_conflicts(concretagens, r.data, r.hora_inicio,
                                          f.duracao_min, f.bomba, f.equipe, r.id))

\* C10 witness: an edit handler has run its conflict check on a pour whose
\* own stored interval overlaps the edited one on the same pump or crew (the
\* check without ignore_id returns the pour itself), and the pour is not in
\* the handler's result.
C10_Witness ==
    \E p \in Sessions :
        /\ op[p] = "edit" /\ pc[p] = "e_update"
        /\ before[p] # NoRow /\ before[p] = Row(sel[p])
        /\ form[p].bomba # <<>>
        /\ sel[p] \in ConflictIds(find_conflicts(concretagens, before[p].data,
                          before[p].hora_inicio, form[p].duracao_min,
                          form[p].bomba, form[p].equipe, NoId))
        /\ sel[p] \notin ConflictIds(conflicts[p])

\* ===================================================== function evaluations
\* The functions of the module evaluated on their own, on databases the
\* handlers did not necessarily write: the columns are nullable text and
\* numbers, and rows written by earlier versions of the application hold
\* other spellings of a status, labels that were not trimmed and no head
\* count.
P2      == <<"P", "2">>
E1lower == <<"e", "1">>

StoredPour(id, d, h, dur, b, e, st, q) ==
    [id |-> id, data |-> d, hora_inicio |-> h, duracao_min |-> dur, colab_qtd |-> q,
     bomba |-> b, equipe |-> e, status |-> st, observacoes |-> Blank,
     criado_por |-> EarlierUser, alterado_por |-> EarlierUser]

FnRows ==
    { StoredPour(1, 10, <<8, 0>>,  120, P1,    Blank,   "Agendado",  1),
      StoredPour(2, 10, <<9, 30>>, 60,  p1_,   E1,      "Cancelado", 2),
      StoredPour(3, 10, <<10, 0>>, 60,  Blank, E1lower, "Concluido", 3),
      StoredPour(4, 9,  <<23, 0>>, 120, P1,    E1,      "AGENDADO",  NullQty),
      StoredPour(5, 10, <<9, 0>>,  90,  Blank, E1lower, "Execução",  2),
      StoredPour(6, 10, <<9, 0>>,  60,  P1,    E1,      "Confirmado", 2),
      StoredPour(7, 10, <<9, 30>>, 60,  Blank, Blank,   "Aguardando", 1),
      StoredPour(8, 10, <<8, 30>>, 60,  P1,    Blank,   "Cáncelado", 1),
      StoredPour(9, 10, <<23, 0>>, 120, P1,    Blank,   "Agendado",  1) }

FnTables == SUBSET FnRows

\* Arguments of find_conflicts.
Candidate(d, h, dur, b, e, ignore_id) ==
    [data |-> d, hora_inicio |-> h, duracao_min |-> dur, bomba |-> b, equipe |-> e,
     ignore_id |-> ignore_id]

FnCandidates ==
    { Candidate(10, <<9, 30>>, 60,  P1,    Blank,   NoId),
      Candidate(10, <<9, 30>>, 60,  P2,    Blank,   NoId),
      Candidate(10, <<9, 30>>, 60,  Blank, Blank,   NoId),
      Candidate(10, <<0, 30>>, 30,  p1_,   E1lower, NoId),
      Candidate(10, <<10, 0>>, 30,  P1,    E1,      NoId),
      Candidate(10, <<8, 0>>,  120, P1,    Blank,   1),
      Candidate(10, NoTime,    60,  P1,    Blank,   NoId) }

\* Times of day intervals_overlap is applied to.
FnTimes == {<<8, 0>>, <<9, 0>>, <<10, 0>>, <<11, 0>>}

\* A stored table with nothing configured, or a stored configuration with
\* no pours.
InitFn ==
    /\ \/ concretagens \in FnTables /\ config = [k \in ConfigKeys |-> NoValue]
       \/ concretagens = {} /\ config \in FnConfigs
    /\ historico = <<>>
    /\ seq = 0
    /\ muts = NoMuts
    /\ InitLocals

appvars == <<concretagens, historico, seq, config, pc, op, form, sel, before, after, conflicts,
             warned,
             ret, ops, faults, saved, reread, delRaised, wrote, lastWriter, muts>>

\* One function applied to the stored state: the functions below only read,
\* so a behaviour holds one evaluation, recorded in call and result.
Apply ==
    /\ call = NoCall
    /\ UNCHANGED appvars

\* find_conflicts(date_iso, hora_inicio, duracao_min, bomba, equipe, ignore_id)
CallFindConflicts(c) ==
    /\ Apply
    /\ call' = [fn |-> "find_conflicts", args |-> c]
    /\ result' = find_conflicts(concretagens, c.data, c.hora_inicio, c.duracao_min,
                                c.bomba, c.equipe, c.ignore_id)

\* find_conflicts for a stored pour against the others: its own date,
\* start, duration, pump and crew, and ignore_id = its id.
CallFindConflictsOfStored(r) ==
    CallFindConflicts(Candidate(r.data, r.hora_inicio, r.duracao_min, r.bomba, r.equipe, r.id))

\* conflicts = detect_schedule_conflicts(show)
CallDetectScheduleConflicts ==
    /\ Apply
    /\ call' = [fn |-> "detect_schedule_conflicts"]
    /\ result' = detect_schedule_conflicts(concretagens)

\* The weekly calendar compares the pours of each day of df_week.
CallWeekPairs ==
    /\ Apply
    /\ call' = [fn |-> "week_pairs"]
    /\ result' = week_pairs(concretagens)

\* get_committed_collaborators(date_str); the query may fail.
CallGetCommittedCollaborators(d, failed) ==
    /\ Apply
    /\ call' = [fn |-> "get_committed_collaborators", date_str |-> d, failed |-> failed]
    /\ result' = get_committed_collaborators(concretagens, d, failed)

\* is_committed_status(status)
CallIsCommittedStatus(st) ==
    /\ Apply
    /\ call' = [fn |-> "is_committed_status", status |-> st]
    /\ result' = is_committed_status(st)

\* get_team_capacity(12); each of its reads of config may fail.
CallGetTeamCapacity(failed1, failed2) ==
    /\ Apply
    /\ call' = [fn |-> "get_team_capacity", failed1 |-> failed1, failed2 |-> failed2]
    /\ result' = get_team_capacity(config, DefaultCapacity, failed1, failed2)

\* intervals_overlap(ai, af, bi, bf)
CallIntervalsOverlap(ai, af, bi, bf) ==
    /\ Apply
    /\ call' = [fn |-> "intervals_overlap", ai |-> ai, af |-> af, bi |-> bi, bf |-> bf]
    /\ result' = intervals_overlap(ai, af, bi, bf)

\* calc_trucks(volume_m3, capacidade_m3)
CallCalcTrucks(v, c) ==
    /\ Apply
    /\ call' = [fn |-> "calc_trucks", volume_m3 |-> v, capacidade_m3 |-> c]
    /\ result' = calc_trucks(v, c)

\* calc_hora_fim(hora_inicio, duracao_min)
CallCalcHoraFim(h, dur) ==
    /\ Apply
    /\ call' = [fn |-> "calc_hora_fim", hora_inicio |-> h, duracao_min |-> dur]
    /\ result' = calc_hora_fim_text(h, dur)

NextFn ==
    \/ \E h \in FnStartTexts, dur \in FnDurations : CallCalcHoraFim(h, dur)
    \/ \E v \in FnVolumes, c \in FnCapacities : CallCalcTrucks(v, c)
    \/ \E c \in FnCandidates : CallFindConflicts(c)
    \/ \E r \in concretagens : CallFindConflictsOfStored(r)
    \/ \E ai, af, bi, bf \in FnTimes : CallIntervalsOverlap(ai, af, bi, bf)
    \/ \E failed1, failed2 \in BOOLEAN : CallGetTeamCapacity(failed1, failed2)
    \/ \E d \in FnDates, failed \in BOOLEAN : CallGetCommittedCollaborators(d, failed)
    \/ \E st \in FnStatuses : CallIsCommittedStatus(st)
    \/ CallDetectScheduleConflicts
    \/ CallWeekPairs

SpecFn == InitFn /\ [][NextFn]_vars

\* ------------------------------------------------ claims on find_conflicts
Range(q) == {q[i] : i \in DOMAIN q}

\* A label as the claims compare it: trimmed, case folded.
Norm(x) == lower(strip(x))

\* The matches a find_conflicts call returned for stored row r.
Matches(r) == {m \in result : m.id = r.id}

\* The candidate interval of a find_conflicts call, on the absolute axis.
CandStart(c) == combine(c.data, _parse_time(c.hora_inicio))
CandEnd(c)   == CandStart(c) + c.duracao_min

TrulyOverlap(c, r) == CandStart(c) < End(r) /\ Start(r) < CandEnd(c)

\* C11: for every same-day pour find_conflicts returns, the reasons contain
\* the pump reason iff the candidate's pump label is non-blank and equals the
\* stored one after trimming and case folding, and the crew reason likewise;
\* with both candidate labels blank the reasons are exactly the schedule
\* reason, for every time-overlapping same-day pour; with a label supplied
\* and none matching, the pour is not returned.
C11_Reasons ==
    call.fn = "find_conflicts" =>
        LET c  == call.args
            nb == Norm(c.bomba)
            ne == Norm(c.equipe)
        IN  \A r \in {x \in concretagens : x.data = c.data} :
               /\ \A m \in Matches(r) :
                     /\ "bomba" \in Range(m.reasons) <=> (nb # <<>> /\ Norm(r.bomba) = nb)
                     /\ "equipe" \in Range(m.reasons) <=> (ne # <<>> /\ Norm(r.equipe) = ne)
                     /\ (nb = <<>> /\ ne = <<>>) => m.reasons = <<"agenda">>
               /\ (/\ nb = <<>> /\ ne = <<>>
                   /\ c.hora_inicio # NoTime /\ r.id # c.ignore_id
                   /\ TrulyOverlap(c, r))
                  => \E m \in Matches(r) : m.reasons = <<"agenda">>
               /\ (/\ nb # <<>> \/ ne # <<>>
                   /\ Norm(r.bomba) # nb \/ nb = <<>>
                   /\ Norm(r.equipe) # ne \/ ne = <<>>)
                  => Matches(r) = {}

\* C11 witness: a call returned a pour for both reasons although its stored
\* pump label differs from the candidate's in case and blanks, and did not
\* return another same-day pour that overlaps the candidate but shares no
\* label with it.
C11_Witness ==
    /\ call.fn = "find_conflicts"
    /\ \E r \in concretagens :
          /\ r.bomba # call.args.bomba
          /\ \E m \in Matches(r) : m.reasons = <<"bomba", "equipe">>
    /\ \E r \in concretagens :
          /\ r.data = call.args.data
          /\ TrulyOverlap(call.args, r)
          /\ Matches(r) = {}

\* ------------------------------------------------ claims on blank labels
BothBlank(r) == strip(r.bomba) = <<>> /\ strip(r.equipe) = <<>>

\* The stored row a conflict record refers to.
Stored(k) == CHOOSE r \in concretagens : r.id = k

\* C12: blank labels never collide.  In find_conflicts, in
\* detect_schedule_conflicts and in the pairwise check of the weekly
\* calendar, two pours whose pump labels are both blank are never matched on
\* the pump, two pours whose crew labels are both blank never on the crew;
\* a stored pour with both labels blank is reported by find_conflicts only
\* for the schedule reason, and by the other two not at all.
C12_BlankNeverCollides ==
    /\ call.fn = "find_conflicts" =>
          \A m \in result :
             /\ (strip(call.args.bomba) = <<>> /\ strip(Stored(m.id).bomba) = <<>>)
                   => "bomba" \notin Range(m.reasons)
             /\ (strip(call.args.equipe) = <<>> /\ strip(Stored(m.id).equipe) = <<>>)
                   => "equipe" \notin Range(m.reasons)
             /\ BothBlank(Stored(m.id)) => m.reasons = <<"agenda">>
    /\ call.fn = "detect_schedule_conflicts" =>
          \A x \in result :
             /\ x.tipo = "Bomba" =>
                   ~(strip(Stored(x.a).bomba) = <<>> /\ strip(Stored(x.b).bomba) = <<>>)
             /\ x.tipo = "Equipe" =>
                   ~(strip(Stored(x.a).equipe) = <<>> /\ strip(Stored(x.b).equipe) = <<>>)
             /\ ~BothBlank(Stored(x.a)) /\ ~BothBlank(Stored(x.b))
    /\ call.fn = "week_pairs" =>
          \A x \in result :
             /\ x.bomba =>
                   ~(strip(Stored(x.a).bomba) = <<>> /\ strip(Stored(x.b).bomba) = <<>>)
             /\ x.equipe =>
                   ~(strip(Stored(x.a).equipe) = <<>> /\ strip(Stored(x.b).equipe) = <<>>)
             /\ ~BothBlank(Stored(x.a)) /\ ~BothBlank(Stored(x.b))

\* C12 witness: detect_schedule_conflicts ran on a table holding two
\* overlapping pours that are not cancelled and whose pump labels are both
\* blank, and reported a pump conflict between two other pours.
C12_Witness ==
    /\ call.fn = "detect_schedule_conflicts"
    /\ \E a, b \in concretagens :
          /\ a.id # b.id
          /\ a.status # "Cancelado" /\ b.status # "Cancelado"
          /\ strip(a.bomba) = <<>> /\ strip(b.bomba) = <<>>
          /\ Start(a) < End(b) /\ Start(b) < End(a)
    /\ \E x \in result : x.tipo = "Bomba"

\* ------------------------------------------------ claims on true overlap
\* The candidate and the stored pour share a resource: a non-blank pump or
\* crew label equal after trimming and case folding, or, for a candidate
\* with no label, the schedule.
ResourceMatching(c, r) ==
    \/ Norm(c.bomba) # <<>> /\ Norm(r.bomba) = Norm(c.bomba)
    \/ Norm(c.equipe) # <<>> /\ Norm(r.equipe) = Norm(c.equipe)
    \/ Norm(c.bomba) = <<>> /\ Norm(c.equipe) = <<>>

\* The example of the claim: persisted A (day 10, 08:00, 120 min, pump P1),
\* candidate B (day 10, 09:30, 60 min) with pump P1, then with pump P2.
PourA == StoredPour(1, 10, <<8, 0>>, 120, P1, Blank, "Agendado", 1)
CandidateB(pump) == Candidate(10, <<9, 30>>, 60, pump, Blank, NoId)

ExampleAB ==
    (call.fn = "find_conflicts" /\ concretagens = {PourA}) =>
        /\ call.args = CandidateB(P1) => result = {[id |-> 1, reasons |-> <<"bomba">>]}
        /\ call.args = CandidateB(P2) => result = {}

\* C13 as stated: find_conflicts returns a resource-matching persisted pour
\* (other than the ignored one) iff candidate_start < persisted_end and
\* persisted_start < candidate_end on absolute date and time; and the
\* example of pours A and B.
C13_Original ==
    /\ (call.fn = "find_conflicts" /\ call.args.hora_inicio # NoTime) =>
          \A r \in concretagens :
             (ResourceMatching(call.args, r) /\ r.id # call.args.ignore_id)
                => (Matches(r) # {} <=> TrulyOverlap(call.args, r))
    /\ ExampleAB

\* C13, amended: find_conflicts returns a resource-matching persisted pour
\* on the candidate's date (other than the ignored one) iff
\* candidate_start < persisted_end and persisted_start < candidate_end, with
\* end = start + duration; and the example of pours A and B.
C13_SameDateOverlap ==
    /\ (call.fn = "find_conflicts" /\ call.args.hora_inicio # NoTime) =>
          \A r \in concretagens :
             (/\ ResourceMatching(call.args, r)
              /\ r.id # call.args.ignore_id
              /\ r.data = call.args.data)
                => (Matches(r) # {} <=> TrulyOverlap(call.args, r))
    /\ ExampleAB

\* C13 witness: with only pour A stored, candidate B on pump P1 got exactly
\* the one match, for the pump.
C13_Witness ==
    /\ call.fn = "find_conflicts"
    /\ concretagens = {PourA}
    /\ call.args = CandidateB(P1)
    /\ result = {[id |-> 1, reasons |-> <<"bomba">>]}

\* ------------------------------------------------ claims on terminal statuses
Terminal == {"Concluido", "Cancelado"}

\* C14: pours in a terminal status (Concluido, Cancelado) never take part in
\* conflict detection: find_conflicts never returns a persisted pour whose
\* status is terminal, and detect_schedule_conflicts never emits a conflict
\* record in which either pour has a terminal status.
C14_TerminalExcluded ==
    /\ call.fn = "find_conflicts" =>
          \A m \in result : Stored(m.id).status \notin Terminal
    /\ call.fn = "detect_schedule_conflicts" =>
          \A x \in result :
             Stored(x.a).status \notin Terminal /\ Stored(x.b).status \notin Terminal

\* ------------------------------------------------ claims on committed head count
\* The spellings of the four active statuses, and of the two terminal ones.
ActiveSpellings   == {"Agendado", "Aguardando", "Confirmado", "Execucao",
                      "AGENDADO", "Execução", "EXECUÇÃO"}
TerminalSpellings == {"Concluido", "Cancelado", "CANCELADO", "Concluído"}

HeadCount(r) == IF r.colab_qtd = NullQty THEN 1 ELSE r.colab_qtd

RECURSIVE TotalHeadCount(_)
TotalHeadCount(rows) ==
    IF rows = {} THEN 0
    ELSE LET r == CHOOSE x \in rows : TRUE
         IN  HeadCount(r) + TotalHeadCount(rows \ {r})

\* C15: get_committed_collaborators(date) equals the sum, over all stored
\* pours on that date whose status is one of the four active statuses, of
\* the pour's head count (1 when absent); pours on other dates and pours
\* with status Concluido or Cancelado contribute 0 whatever their head count.
C15_CommittedSum ==
    (call.fn = "get_committed_collaborators" /\ ~call.failed) =>
        /\ result = TotalHeadCount({r \in concretagens :
                                      r.data = call.date_str /\ r.status \in ActiveSpellings})
        /\ result = get_committed_collaborators(
                       {r \in concretagens : r.data = call.date_str /\ r.status \notin Terminal},
                       call.date_str, FALSE)

\* C16: active-status matching is accent- and case-insensitive everywhere it
\* is applied: is_committed_status is true for every case or diacritic
\* variant of the four active statuses and false for the variants of
\* Concluido and Cancelado, and get_committed_collaborators counts a pour
\* exactly when is_committed_status of its stored status is true.
C16_StatusMatching ==
    /\ call.fn = "is_committed_status" =>
          /\ call.status \in ActiveSpellings => result = TRUE
          /\ call.status \in TerminalSpellings => result = FALSE
    /\ (call.fn = "get_committed_collaborators" /\ ~call.failed) =>
          result = TotalHeadCount({r \in concretagens :
                                     r.data = call.date_str /\ is_committed_status(r.status)})

\* C17: get_committed_collaborators fails open: when the query fails it
\* returns 0 and does not raise, whatever pours are stored for that date.
C17_FailsOpen ==
    (call.fn = "get_committed_collaborators" /\ call.failed) => result = 0

\* C17 witness: the query failed on a date that has committed pours, and the
\* function returned 0.
C17_Witness ==
    /\ call.fn = "get_committed_collaborators"
    /\ call.failed
    /\ get_committed_collaborators(concretagens, call.date_str, FALSE) > 0
    /\ result = 0

\* ------------------------------------------------ claims on the team capacity
\* A text that is an integer: a sign and digits, blanks around it.
IsIntegerText(v) ==
    /\ v # NoValue
    /\ leading_digits(unsigned(strip(v))) # <<>>
    /\ leading_digits(unsigned(strip(v))) = unsigned(strip(v))

IntegerOf(v) == int_float(strip(v))

\* A setting with no usable number: unset, blank or not a number.
NoNumber(v) == v = NoValue \/ strip(v) = <<>> \/ ~float_ok(replace_comma(strip(v)))

\* The three cases of the claim, for the configured text v.
CapacityCases(v) ==
    /\ result >= 1
    /\ (IsIntegerText(v) /\ IntegerOf(v) >= 1) => result = IntegerOf(v)
    /\ (IsIntegerText(v) /\ IntegerOf(v) <= 0) => result = 1
    /\ NoNumber(v) => result = DefaultCapacity

\* C18 as stated: get_team_capacity returns an integer >= 1 for every stored
\* config state: the value configured under team_capacity when it is an
\* integer >= 1, 1 when it is 0 or negative, and the default 12 when the
\* setting is unset, blank, unparseable or its read fails.
C18_Original ==
    call.fn = "get_team_capacity" =>
        CapacityCases(IF call.failed1 THEN NoValue ELSE config["team_capacity"])

\* The text get_team_capacity takes as configured: the one under
\* team_capacity or, when that is unset, blank or cannot be read, the one
\* under the legacy key capacidade_colaboradores.
Configured ==
    LET v1 == IF call.failed1 THEN NoValue ELSE config["team_capacity"]
    IN  IF v1 = NoValue \/ strip(v1) = <<>>
        THEN (IF call.failed2 THEN NoValue ELSE config["capacidade_colaboradores"])
        ELSE v1

\* C18, amended: the same three cases for the configured value, where the
\* configured value is the one under team_capacity or, when that is unset,
\* blank or cannot be read, the one under capacidade_colaboradores.
C18_TeamCapacity ==
    call.fn = "get_team_capacity" => CapacityCases(Configured)

\* C18 witness: team_capacity holds a negative number and the function
\* returned 1.
C18_Witness ==
    /\ call.fn = "get_team_capacity"
    /\ ~call.failed1
    /\ IsIntegerText(config["team_capacity"])
    /\ IntegerOf(config["team_capacity"]) < 0
    /\ result = 1

\* ------------------------------------------------ claims on intervals_overlap
MinutesOf(t) == t[1] * 60 + t[2]

\* The endpoints of an interval after the swap that puts them in order.
Lower(x, y) == IF MinutesOf(y) < MinutesOf(x) THEN MinutesOf(y) ELSE MinutesOf(x)
Upper(x, y) == IF MinutesOf(y) < MinutesOf(x) THEN MinutesOf(x) ELSE MinutesOf(y)

\* C20: intervals_overlap returns max(aStart, bStart) < min(aEnd, bEnd)
\* after each interval is normalised by swapping its endpoints when
\* end < start, that is, the two half-open intervals share a minute; it is
\* symmetric in its two intervals; [08:00,09:00) against [09:00,10:00) is
\* false and [08:00,10:00) against [09:00,11:00) is true.
C20_IntervalsOverlap ==
    call.fn = "intervals_overlap" =>
        LET a0 == Lower(call.ai, call.af)
            a1 == Upper(call.ai, call.af)
            b0 == Lower(call.bi, call.bf)
            b1 == Upper(call.bi, call.bf)
        IN  /\ result = ((IF a0 > b0 THEN a0 ELSE b0) < (IF a1 < b1 THEN a1 ELSE b1))
            /\ result = (\E m \in 0..(MinutesPerDay - 1) : a0 <= m /\ m < a1 /\ b0 <= m /\ m < b1)
            /\ result = intervals_overlap(call.bi, call.bf, call.ai, call.af)
            /\ (call.ai = <<8, 0>> /\ call.af = <<9, 0>> /\ call.bi = <<9, 0>> /\ call.bf = <<10, 0>>)
                  => result = FALSE
            /\ (call.ai = <<8, 0>> /\ call.af = <<10, 0>> /\ call.bi = <<9, 0>> /\ call.bf = <<11, 0>>)
                  => result = TRUE

\* C20 witness: the function was applied to an interval given end first and
\* an interval that only touches it, and returned false.
C20_Witness ==
    /\ call.fn = "intervals_overlap"
    /\ MinutesOf(call.af) < MinutesOf(call.ai)
    /\ Upper(call.ai, call.af) = Lower(call.bi, call.bf)
    /\ Lower(call.bi, call.bf) < Upper(call.bi, call.bf)
    /\ result = FALSE

\* ------------------------------------------------ claims on the capacity warning
\* committed(date) + this pour's head count exceeds get_team_capacity(), for
\* the values the two functions return to session p in this state (each
\* read may fail and give its default).
ProjectedOver(p, failed1, failed2, failed3) ==
    get_committed_collaborators(concretagens, form[p].data, failed3) + form[p].colab_qtd
      > get_team_capacity(config, DefaultCapacity, failed1, failed2)

\* Session p's flow runs its save statement in this step.
Saves(p) == op[p] \in {"create", "edit"} /\ ~saved[p] /\ saved'[p]

\* C19: in both the create flow and the edit flow the projected commitment
\* is computed and a capacity warning is raised exactly when it exceeds
\* get_team_capacity(); the warning does not block, the pour is saved
\* whether or not it was raised.
C19_CapacityWarning ==
    [][\A p \in Sessions :
          /\ (pc[p] = "c_cap" /\ pc'[p] = "c_check") =>
                \E failed1, failed2, failed3 \in BOOLEAN :
                   warned'[p] = IF ProjectedOver(p, failed1, failed2, failed3)
                                THEN "yes" ELSE "no"
          /\ Saves(p) => warned[p] \in {"yes", "no"}]_vars

\* ------------------------------------------------ claims on calc_trucks
\* The least whole number of loads of c hundredths that hold v hundredths.
Ceiling(v, c) == CHOOSE n \in 0..v : n * c >= v /\ (n = 0 \/ (n - 1) * c < v)

Missing(x) == x.kind # "number"

\* C21: calc_trucks(volume, capacity) returns 0 when volume <= 0 or
\* capacity <= 0 or either is missing or not finite, and ceil(volume /
\* capacity) otherwise; for a fixed capacity C > 0 it is non-decreasing in
\* the volume, calc_trucks(0, C) = 0, calc_trucks(24.0, 8.0) = 3 and
\* calc_trucks(24.01, 8.0) = 4.
C21_CalcTrucks ==
    call.fn = "calc_trucks" =>
        LET v == call.volume_m3
            c == call.capacidade_m3
        IN  /\ (Missing(v) \/ Missing(c) \/ v.x <= 0 \/ c.x <= 0) => result = 0
            /\ (~Missing(v) /\ ~Missing(c) /\ v.x > 0 /\ c.x > 0) => result = Ceiling(v.x, c.x)
            /\ (~Missing(v) /\ ~Missing(c) /\ c.x > 0) =>
                  \A w \in FnVolumes : (~Missing(w) /\ w.x <= v.x) => calc_trucks(w, c) <= result
            /\ (v = Num(0) /\ ~Missing(c) /\ c.x > 0) => result = 0
            /\ (v = Num(2400) /\ c = Num(800)) => result = 3
            /\ (v = Num(2401) /\ c = Num(800)) => result = 4

\* C21 witness: 24.01 m3 in trucks of 8.0 m3 gave four trucks.
C21_Witness ==
    /\ call.fn = "calc_trucks"
    /\ call.volume_m3 = Num(2401) /\ call.capacidade_m3 = Num(800)
    /\ result = 4

\* ------------------------------------------------ claims on calc_hora_fim
\* A text is a zero-padded HH:MM.
IsHHMM(s) ==
    /\ Len(s) = 5 /\ s[3] = ":"
    /\ \A i \in {1, 2, 4, 5} : IsDigit(s[i])
    /\ digit_value(s[1]) * 10 + digit_value(s[2]) <= 23
    /\ digit_value(s[4]) * 10 + digit_value(s[5]) <= 59

\* The minutes since midnight a zero-padded HH:MM denotes.
MinutesOfText(s) ==
    (digit_value(s[1]) * 10 + digit_value(s[2])) * 60 + digit_value(s[4]) * 10 + digit_value(s[5])

\* The number in 0..1439 that differs from n by a multiple of 1440.
Mod1440(n) == CHOOSE t \in 0..(MinutesPerDay - 1) : \E k \in -3..3 : n = t + k * MinutesPerDay

\* calc_hora_fim returned the zero-padded HH:MM of (start + duration) mod 1440.
WrappedEnd ==
    /\ IsHHMM(result)
    /\ MinutesOfText(result) = Mod1440(MinutesOfText(call.hora_inicio) + call.duracao_min)

\* The pour of the call runs past midnight.
PastMidnight ==
    call.duracao_min > 0 /\ MinutesOfText(call.hora_inicio) + call.duracao_min >= MinutesPerDay

\* C22 as stated: calc_hora_fim for a valid HH:MM start and any integer
\* duration returns the zero-padded HH:MM of (start minutes + duration)
\* mod 1440, within 00:00..23:59; for a pour running past midnight the
\* returned end time is earlier in the day than the start time.
C22_Original ==
    (call.fn = "calc_hora_fim" /\ IsHHMM(call.hora_inicio)) =>
        /\ WrappedEnd
        /\ PastMidnight => MinutesOfText(result) < MinutesOfText(call.hora_inicio)

\* C22 amended: the same, the end time being earlier than the start for a
\* pour of less than 24 hours running past midnight.
C22_HoraFim ==
    (call.fn = "calc_hora_fim" /\ IsHHMM(call.hora_inicio)) =>
        /\ WrappedEnd
        /\ (PastMidnight /\ call.duracao_min < MinutesPerDay)
              => MinutesOfText(result) < MinutesOfText(call.hora_inicio)

\* C22 witness: a pour of 16 hours from 08:00 ends at 00:00.
C22_Witness ==
    /\ call.fn = "calc_hora_fim"
    /\ call.hora_inicio = <<"0", "8", ":", "0", "0">> /\ call.duracao_min = 960
    /\ result = <<"0", "0", ":", "0", "0">>

\* ------------------------------------------------ claims on cancelled pours
\* A status compared without regard to case and diacritics.
Folded(s) == [i \in 1..Len(s) |-> translate_char(lower_char(s[i]))]

Cancelled(r) == startswith(Folded(StatusText[r.status]), <<"c", "a", "n", "c", "e", "l">>)

\* Pours a, b of one resource that would be neighbours in start order with
\* the cancelled pours of that resource left out, a cancelled one lying
\* between them.
AcrossCancelled(a, b, key) ==
    /\ ~Cancelled(a) /\ ~Cancelled(b)
    /\ strip(a[key]) # <<>> /\ strip(a[key]) = strip(b[key])
    /\ Start(a) < Start(b)
    /\ \E k \in concretagens : /\ Cancelled(k) /\ strip(k[key]) = strip(a[key])
                               /\ Start(a) < Start(k) /\ Start(k) < Start(b)
    /\ ~\E z \in concretagens : /\ ~Cancelled(z) /\ strip(z[key]) = strip(a[key])
                                /\ Start(a) <= Start(z) /\ Start(z) <= Start(b)
                                /\ z.id \notin {a.id, b.id}

\* C23: detect_schedule_conflicts drops every cancelled pour before
\* scanning: no conflict record contains a pour whose status, compared
\* without regard to case and diacritics, begins with "cancel", and a
\* cancelled pour lying between two other pours of the same resource does
\* not keep those two from being compared as neighbours.
C23_CancelledDropped ==
    call.fn = "detect_schedule_conflicts" =>
        /\ \A x \in result : ~Cancelled(Stored(x.a)) /\ ~Cancelled(Stored(x.b))
        /\ \A a, b \in concretagens :
              /\ AcrossCancelled(a, b, "bomba") =>
                    ((End(a) > Start(b)) <=> \E x \in result : x.tipo = "Bomba" /\ x.a = a.id /\ x.b = b.id)
              /\ AcrossCancelled(a, b, "equipe") =>
                    ((End(a) > Start(b)) <=> \E x \in result : x.tipo = "Equipe" /\ x.a = a.id /\ x.b = b.id)

\* ------------------------------------------------ claims on the neighbour scan
\* The scanned pours that carry a label on a resource, and the position of
\* one of them among those of its label, in start order.
Group(key, label) == {r \in detect_rows(concretagens) : r[key] = label}

Position(r, key) == Cardinality({z \in Group(key, r[key]) : SortsBefore(z, r)})

Neighbours(a, b, key) ==
    a[key] # <<>> /\ a[key] = b[key] /\ Position(b, key) = Position(a, key) + 1

Emitted(a, b, tipo) == \E x \in result : x.tipo = tipo /\ x.a = a.id /\ x.b = b.id

ScanOf(key, tipo) ==
    /\ \A a, b \in detect_rows(concretagens) :
          /\ Neighbours(a, b, key) => (Emitted(a, b, tipo) <=> a.fim > b.inicio)
          /\ Emitted(a, b, tipo) => Neighbours(a, b, key)
          /\ (a.id # b.id /\ a[key] # <<>> /\ a[key] = b[key]
                /\ a.inicio < b.fim /\ b.inicio < a.fim)
                => \E x \in result : x.tipo = tipo /\ x.recurso = a[key]
    /\ \A x \in result : x.tipo = tipo =>
          \E a, b \in detect_rows(concretagens) : a.id = x.a /\ b.id = x.b

\* C24: in detect_schedule_conflicts, within each group of pours sharing
\* the same non-blank trimmed label, sorted by start, a conflict record is
\* emitted for neighbours i and i+1 exactly when end(i) > start(i+1); and
\* whenever two pours of a group truly overlap, at least one conflict
\* record is emitted for that group.
C24_NeighbourScan ==
    call.fn = "detect_schedule_conflicts" =>
        ScanOf("bomba", "Bomba") /\ ScanOf("equipe", "Equipe")

\* C24 witness: a pump group of three pours in which the first overlaps the
\* third; the scan reported the first with the second and not with the
\* third.
C24_Witness ==
    /\ call.fn = "detect_schedule_conflicts"
    /\ \E a, b, c \in detect_rows(concretagens) :
          /\ Neighbours(a, b, "bomba") /\ Neighbours(b, c, "bomba")
          /\ a.fim > c.inicio
          /\ Emitted(a, b, "Bomba") /\ ~Emitted(a, c, "Bomba")

\* ------------------------------------------------ claims on the two entry points
\* find_conflicts was called for the stored pour P, every stored pour being
\* on P's day and not cancelled.
CalledForStored(P) ==
    /\ call.fn = "find_conflicts"
    /\ call.args = Candidate(P.data, P.hora_inicio, P.duracao_min, P.bomba, P.equipe, P.id)
    /\ \A r \in concretagens : ~Cancelled(r) /\ r.data = P.data

\* C25: the two conflict entry points are equivalent: for any set S of
\* non-cancelled pours on one day, a pour P of S appears in some conflict
\* record of detect_schedule_conflicts(S) iff find_conflicts called with
\* P's date, start time, duration, pump and crew and ignore_id = P's id,
\* against S as the persisted set, returns a non-empty list.
C25_EntryPointsEquivalent ==
    \A P \in concretagens :
       CalledForStored(P) =>
          ((\E x \in detect_schedule_conflicts(concretagens) : P.id \in {x.a, x.b})
             <=> result # {})

\* ------------------------------------------------ claims on the weekly calendar
\* The active statuses of STATUS.
Active(r) == r.status \in {STATUS[i] : i \in 1..4}

IdenticalLabel(a, b) ==
    \/ strip(a.bomba) # <<>> /\ a.bomba = b.bomba
    \/ strip(a.equipe) # <<>> /\ a.equipe = b.equipe

EndsSameDay(r) == End(r) < combine(r.data, MinutesPerDay)

\* The weekly calendar flagged the pair.
Flagged(a, b) == \E x \in result : {x.a, x.b} = {a.id, b.id}

\* The timestamp test of find_conflicts.
TimestampTest(a, b) == Start(a) < End(b) /\ Start(b) < End(a)

\* Two active pours of one day with an identical non-blank label and
\* positive durations.
ComparedPair(a, b) ==
    /\ a.id # b.id /\ a.data = b.data
    /\ Active(a) /\ Active(b)
    /\ IdenticalLabel(a, b)
    /\ a.duracao_min > 0 /\ b.duracao_min > 0

\* C30: for two active pours on the same day with identical non-blank pump
\* or crew labels and positive durations that both end on the same calendar
\* day, the pairwise check of the weekly calendar flags the pair iff the
\* timestamp test of find_conflicts (start1 < end2 and start2 < end1)
\* holds; when one of the pours runs past midnight the two can disagree.
C30_WeeklyCheck ==
    call.fn = "week_pairs" =>
        \A a, b \in concretagens :
           (ComparedPair(a, b) /\ EndsSameDay(a) /\ EndsSameDay(b))
              => (Flagged(a, b) <=> TimestampTest(a, b))

\* C30 witness: the weekly check flagged two overlapping pours that end
\* the same day, and flagged a pour with one that runs past midnight and
\* starts after the first has ended.
C30_Witness ==
    /\ call.fn = "week_pairs"
    /\ \E a, b \in concretagens :
          /\ ComparedPair(a, b) /\ EndsSameDay(a) /\ EndsSameDay(b)
          /\ Flagged(a, b) /\ TimestampTest(a, b)
    /\ \E a, b \in concretagens :
          /\ ComparedPair(a, b) /\ EndsSameDay(a) /\ ~EndsSameDay(b)
          /\ Flagged(a, b) /\ ~TimestampTest(a, b)

\* ------------------------------------------------ claims on the hard delete
\* The DELETE entries the running call of session p wrote for its pour with
\* the snapshot it read at its start.
DeleteEntries(p) ==
    {i \in WroteAction(p, historico, wrote, "DELETE") :
        /\ historico[i].entidade_id = sel[p]
        /\ historico[i].before = before[p]
        /\ historico[i].after = None}

\* A step of session p's delete call that removes its pour.
Removes(p) ==
    /\ op[p] = "delete" /\ Running(p)
    /\ sel[p] \in Ids(concretagens) /\ sel[p] \notin Ids(concretagens')
    /\ pc'[p] # pc[p]

\* C27: every pour removed by a hard delete through
\* delete_concretagem_by_id has a DELETE history entry whose before
\* snapshot is the row read at the start of the call, written before the
\* delete statement runs: if writing the DELETE entry fails, the delete
\* statement is not executed and the pour stays in the store.
C27_DeleteLogged ==
    [][\A p \in Sessions :
          /\ (pc[p] = "d_before" /\ pc'[p] = "d_hist") => before'[p] = Row(sel[p])
          /\ Removes(p) => (pc[p] = "d_delete" /\ DeleteEntries(p) # {})
          /\ (pc[p] = "d_hist" /\ pc'[p] # "d_hist" /\ DeleteEntries(p)' = {}) =>
                (pc'[p] = "d_fallback" /\ concretagens' = concretagens)
          /\ (pc[p] = "d_fallback" /\ pc'[p] # "d_fallback") =>
                (pc'[p] = "done" /\ concretagens' = concretagens)]_vars

\* C27 witness: one call failed to write its DELETE entry and returned
\* False without deleting; a later call wrote the entry and removed the
\* pour.
C27_Witness ==
    \E p, q \in Sessions :
       /\ p # q
       /\ op[p] = "delete" /\ pc[p] = "done" /\ delRaised[p] /\ ret[p] = "False"
       /\ WroteAction(p, historico, wrote, "DELETE") = {}
       /\ op[q] = "delete" /\ pc[q] = "d_reread" /\ sel[q] = sel[p]
       /\ DeleteEntries(q) # {}
       /\ sel[q] \notin Ids(concretagens)

\* ------------------------------------------------ claims on the frame of an edit
\* A step of the edit call of session p.
EditStep(p) == op[p] = "edit" /\ Running(p) /\ pc'[p] # pc[p]

\* The columns the edit form has no say in.
SameFrame(r, s) ==
    /\ r.data = s.data /\ r.hora_inicio = s.hora_inicio /\ r.obra_id = s.obra_id
    /\ r.colab_qtd = s.colab_qtd /\ r.criado_por = s.criado_por

Committed(tbl, d) == get_committed_collaborators(tbl, d, FALSE)

\* C28: editing a pour through the edit form leaves its date, start time,
\* site, head count (colab_qtd) and creator unchanged for every input of
\* the form; hence an edit changes get_committed_collaborators for the
\* pour's date only through a change of status, and the conflict check on
\* edit always uses the stored date and start time.
C28_EditFrame ==
    [][\A p \in Sessions :
          EditStep(p) =>
             /\ \A r \in concretagens :
                   \E s \in concretagens' : s.id = r.id /\ SameFrame(r, s)
             /\ \A d \in {r.data : r \in concretagens} :
                   Committed(concretagens', d) # Committed(concretagens, d)
                      => /\ Row(sel[p]).data = d
                         /\ Row(sel[p])'.status # Row(sel[p]).status
             /\ (pc[p] = "e_check" /\ pc'[p] = "e_update" /\ Row(sel[p]) # NoRow)
                   => conflicts'[p] = find_conflicts(concretagens, Row(sel[p]).data,
                                                     Row(sel[p]).hora_inicio,
                                                     form[p].duracao_min, form[p].bomba,
                                                     form[p].equipe, sel[p])]_vars

\* C28 witness: an edit whose form held another head count was saved; the
\* pour kept its head count, date, start and site, its status changed and
\* with it the committed head count of its day.
C28_Witness ==
    \E p \in Sessions :
       /\ op[p] = "edit" /\ pc[p] = "e_after" /\ saved[p]
       /\ before[p] # NoRow /\ Row(sel[p]) # NoRow
       /\ SameFrame(before[p], Row(sel[p]))
       /\ form[p].colab_qtd # Row(sel[p]).colab_qtd
       /\ Row(sel[p]).status # before[p].status
       /\ Committed(concretagens, before[p].data)
            # Committed((concretagens \ {Row(sel[p])}) \cup {before[p]}, before[p].data)

\* ------------------------------------------------ claims on the quantities of a pour
NullOrZero(x) == x = NullQty \/ x = 0

NonVolumetric == {SERVICE_TYPES[i] : i \in 2..Len(SERVICE_TYPES)}

\* C26: after any create or edit that saves a pour with a service type
\* other than "Concretagem", the stored volume, strength, slump, estimated
\* truck count and estimated specimen count are null or zero, and on
\* creation the duration field defaults to 60 minutes.
C26_NonVolumetricCleared ==
    /\ \A r \in concretagens :
          r.tipo_servico \in NonVolumetric =>
             /\ NullOrZero(r.volume_m3) /\ NullOrZero(r.fck_mpa)
             /\ NullOrZero(r.slump_mm) /\ r.slump_txt \in {NoValue, Blank}
             /\ NullOrZero(r.caminhoes_est) /\ NullOrZero(r.formas_est)
    /\ \A t \in NonVolumetric : create_default_dur(t) = 60

\* A stored number with NULL read as 0.
Zero(x) == IF x = NullQty THEN 0 ELSE x

\* C29: after any sequence of creates and edits, every persisted pour
\* satisfies, NULL being read as 0: formas_est = calc_cp_qty(caminhoes_est,
\* cps_por_caminhao), and caminhoes_est = calc_trucks(volume_m3,
\* cap_caminhao_m3) when its service type is "Concretagem" and 0 otherwise.
C29_EstimatesConsistent ==
    \A r \in concretagens :
       /\ Zero(r.formas_est) = calc_cp_qty(column(r.caminhoes_est), column(r.cps_por_caminhao))
       /\ Zero(r.caminhoes_est) =
             IF r.tipo_servico = "Concretagem"
             THEN calc_trucks(column(r.volume_m3), column(r.cap_caminhao_m3))
             ELSE 0

\* C29 witness: a pour created as concrete with four trucks was edited to
\* other quantities, and another was created with no volume; the first
\* holds three trucks and twelve specimens, the second NULL estimates.
C29_Witness ==
    \E r, s \in concretagens :
       /\ r.tipo_servico = "Concretagem" /\ r.alterado_por # r.criado_por
       /\ r.volume_m3 = 1600 /\ r.cap_caminhao_m3 = 700
       /\ r.caminhoes_est = 3 /\ r.formas_est = 12
       /\ s.tipo_servico = "Concretagem" /\ s.volume_m3 = 0
       /\ s.caminhoes_est = NullQty /\ s.formas_est = NullQty

====
